---- MODULE Spec2Model ----
\* Model of the scroll bar engine of ScrollContainer (src/src/ScrollContainer.ts):
\* the synchronisation of the custom scroll bars with the scroll state
\* (syncScrollBars and its animation frame callback) and the dragging of a
\* scroll bar thumb (onDragThumbPointerDown, -Move, -Up).
\*
\* Lengths are CSS pixels. An inline style value is a record [u, n, d]:
\* u = "px" is n pixels, u = "pct" is the fraction n/d of the containing block
\* (n/d * 100 percent), u = "unset" is a style that was never written. Numbers
\* the code computes in floating point are kept as fractions in lowest terms.
EXTENDS Integers, FiniteSets, Sequences, TLC

\* ------------------------------------------------------------------ bounds

\* Pointer coordinates are multiples of 40 px from 0 to 40 * MaxCoord.
MaxCoord == 2
\* At most MaxPending animation frame callbacks are queued at a time.
MaxPending == 2
\* At most MaxEvents events of the user or the layout (a scroll by the user, a
\* resize, a pointer-down) happen in one behaviour.
MaxEvents == 2
\* At most MaxCleanups deferred drag cleanups are queued at a time.
MaxCleanups == 2
\* At most MaxSteps rafScroll callbacks are queued at a time.
MaxSteps == 2
\* At most MaxPresses pointer-downs on a track happen in one behaviour.
MaxPresses == 1
\* At most MaxRecords mutation records wait for the callback of mutationObserver.
MaxRecords == 3
\* At most MaxDispatched 'disclose' events are dispatched.
MaxDispatched == 4
\* The call stack holds at most MaxStack frames.
MaxStack == 3
\* The caller has changed at most MaxWrites elements of the arrays it holds.
MaxWrites == 2
\* At most MaxToggles timers of native() wait to restore the overflow.
MaxToggles == 2

\* --------------------------------------------------------- program constants

\* --scroll-bar-thumb-min-size: 1rem (16 px at the default font size).
MinThumbSize == 16
\* --scroll-bar-size: 0.6rem, the thickness of a track as offsetWidth/offsetHeight.
ScrollBarSize == 10
\* --scroll-bar-thumb-gap: var(--1px).
ThumbGap == 1
\* The denominator of the substitute -0.000001 for a scroll extent of 0.
EpsilonDen == 1000000
\* Stand-in for -Infinity in dragStart and dragStartElementPos.
NegInfinity == -1000000000

\* ------------------------------------------------------------- arithmetic

Max(a, b) == IF a >= b THEN a ELSE b
Min(a, b) == IF a <= b THEN a ELSE b
Abs(a) == IF a < 0 THEN -a ELSE a

RECURSIVE GCD(_, _)
GCD(a, b) == IF b = 0 THEN a ELSE GCD(b, a % b)

\* The fraction n/d (d # 0) in lowest terms with a positive denominator.
Frac(n, d) ==
    LET g == GCD(Abs(n), Abs(d))
        s == IF d < 0 THEN -1 ELSE 1
    IN  [n |-> (s * n) \div g, d |-> (s * d) \div g]

\* n/d rounded to the nearest integer (d > 0), halves up.
Round(n, d) == (2 * n + d) \div (2 * d)

\* Inline style values.
Unset == [u |-> "unset", n |-> 0, d |-> 1]
Px(n) == [u |-> "px", n |-> n, d |-> 1]
Pct(n, d) == LET f == Frac(n, d) IN [u |-> "pct", n |-> f.n, d |-> f.d]

\* ------------------------------------------------------------ input sets

\* (client extent, scroll extent, offset extent) of one axis of the scrollable
\* surface. The scroll extent of an element is never less than its client
\* extent, and its offset extent is its client extent plus its borders: here a
\* surface that is not laid out, one whose content fits, one with a border of
\* 1 px and overflowing content, and one with much overflowing content.
AxisGeometry == {<<0, 0, 0>>, <<200, 200, 200>>, <<100, 400, 102>>, <<100, 1000, 100>>}

\* The scroll offsets an axis is scrolled to: start, middle and end of its range.
ScrollStops(g) == {0, (g[2] - g[1]) \div 2, g[2] - g[1]}

\* The pointer positions of the events: one per coordinate, with x # y.
Points == {<<40 * k, 40 * ((k + 1) % (MaxCoord + 1))>> : k \in 0..MaxCoord}

Thumbs == {"h", "v"}
NoThumb == "none"

\* The tracks hBar and vBar, as values of `pointer`.
Bars == {"hBar", "vBar"}

\* (event.offsetX, event.offsetY) of a pointer-down whose target is a thumb:
\* a point of the thumb, relative to the thumb.
ThumbGrip == [x |-> 1, y |-> 1]

\* The press coordinates along a track.
PressCoords == {5, 37, 90}
\* event.offsetX/offsetY of a press across the track, within its thickness.
PressAcross == 4

\* No smooth scroll is in progress.
NoScroll == [axis |-> "none", by |-> [n |-> 0, d |-> 1], target |-> 0, half |-> FALSE]

\* The components given as Offset or ReduceSize of an adjustment, and the
\* layout boxes they take.
Elements == {"e1", "e2"}
FirstBox == [offsetLeft |-> 3, offsetTop |-> 5, offsetWidth |-> 20, offsetHeight |-> 10]
ElementBoxes ==
    {FirstBox, [offsetLeft |-> 4, offsetTop |-> 6, offsetWidth |-> 30, offsetHeight |-> 12]}
\* Offset and ReduceSize: a number of pixels or a component.
Number(n) == [el |-> "none", num |-> n]
Component(e) == [el |-> e, num |-> 0]
\* typeof v !== "number"
IsComponent(v) == v.el # "none"
AdjustmentValues == {Number(8)} \cup {Component(e) : e \in Elements}
\* `{ Offset: 0, ReduceSize: 0 }`, the adjustment of a call without argument.
NoAdjustment == [Offset |-> Number(0), ReduceSize |-> Number(0)]
\* The arguments of horizontalAdjustment() and verticalAdjustment(): none,
\* one value for both Offset and ReduceSize, and two components.
Adjustments ==
    {NoAdjustment} \cup {[Offset |-> v, ReduceSize |-> v] : v \in AdjustmentValues}
       \cup {[Offset |-> Component("e1"), ReduceSize |-> Component("e2")]}

\* The nodes added to the content area: two elements and a text node.
Nodes == {"a", "b", "text"}
\* node instanceof Element
IsElement(node) == node # "text"
\* The scrollable surface _dom_, as a target of resizeObserver.
Surface == "_dom_"

\* ------------------------------------------------------------------ state

VARIABLES
    horizontal,           \* _horizontal
    vertical,             \* _vertical
    native,               \* _native
    attached,             \* the overlays that are children of _dom_
    modeClassList,        \* the classes "horizontal", "vertical" and "native" of _dom_
    scrollListening,      \* onScrollListener and onScrollEndListener are subscribed
    overflow,             \* the inline overflow-x and overflow-y of _dom_
    overflowTimers,       \* the values the timers of native() will restore, in order
    clientWidth,          \* _dom_.clientWidth
    scrollWidth,          \* _dom_.scrollWidth
    clientHeight,         \* _dom_.clientHeight
    scrollHeight,         \* _dom_.scrollHeight
    offsetWidth,          \* _dom_.offsetWidth
    offsetHeight,         \* _dom_.offsetHeight
    scrollLeft,           \* _dom_.scrollLeft
    scrollTop,            \* _dom_.scrollTop
    scrollEventPending,   \* a "scroll" event of _dom_ waits to be dispatched
    painted,              \* the first animation frame after construction has run
    hBarLeftOffset,
    hBarReduceWidth,
    vBarTopOffset,
    vBarReduceHeight,
    style,                \* inline styles of the scroll bar overlays and thumbs
    classList,            \* CSS classes of _dom_ set by the engine
    pending,              \* queued animation frame callbacks of syncScrollBars
    rafQueue,             \* the queued animation frame callbacks, in their order
    dragging,
    dragStart,
    dragStartElementPos,
    draggingThumb,
    draggingThumbRect,
    draggingBarRect,
    contScrollHorizontal,
    moveListeners,        \* thumbs with fncOnDragThumbPointerMove subscribed
    pointer,              \* the thumb a pressed pointer is captured to
    cleanupTimers,        \* queued deferred cleanups of onDragThumbPointerUp
    contScrollStartPos,
    isPointerDown,
    contScrollBackwards,
    scrollPageLength,     \* a fraction [n, d]
    lastScrollPos,
    onScrollEndTimeout,   \* the timer of onScrollEnd() is armed
    smoothScroll,         \* the smooth scroll in progress: its axis, distance and target
    hAdjustment,
    vAdjustment,
    elementBox,           \* offsetLeft/Top/Width/Height of the adjustment elements
    adjustmentObserved,   \* elements observed by adjustmentResizeObserver
    adjustmentEntries,    \* observed elements with an observation to deliver
    children,             \* child nodes of contentContainer.DOM
    mutationRecords,      \* records queued for the callback of mutationObserver
    resizeObserved,       \* the targets of resizeObserver
    opResult,             \* what the last child-container operation returned or threw
    _disclosed,
    _labels,              \* Captions and Titles: references to arrays of the heap
    _appearance,
    heap,                 \* the arrays of captions and titles, by reference
    held,                 \* the arrays the caller got from the Labels getter
    buttonText,           \* discloseButton.Text
    buttonTitle,          \* discloseButton.Title
    disclosureClassList,  \* "disclosed"/"undisclosed" of the disclosure container
    uiClassList,          \* the appearance classes of the disclosure container's ui
    dispatched,           \* the 'disclose' events dispatched so far
    events                \* number of scrolls by the user, resizes and pointer-downs so far

configVars == <<horizontal, vertical, native, attached, modeClassList, scrollListening,
                overflow, overflowTimers>>
sizeVars == <<clientWidth, scrollWidth, offsetWidth, clientHeight, scrollHeight, offsetHeight>>
scrollVars == <<scrollLeft, scrollTop, scrollEventPending>>
adjustVars == <<hBarLeftOffset, hBarReduceWidth, vBarTopOffset, vBarReduceHeight>>
frameVars == <<pending, rafQueue, painted>>
dragVars == <<dragging, dragStart, dragStartElementPos, draggingThumb, draggingThumbRect,
              draggingBarRect, contScrollHorizontal, moveListeners, cleanupTimers>>
pressSession == <<contScrollStartPos, isPointerDown, contScrollBackwards, scrollPageLength>>
endVars == <<lastScrollPos, onScrollEndTimeout>>
pressVars == <<pressSession, endVars, smoothScroll>>
observerVars == <<hAdjustment, vAdjustment, elementBox, adjustmentObserved,
                  adjustmentEntries>>
contentVars == <<children, mutationRecords, resizeObserved>>
disclosureVars == <<_disclosed, _labels, _appearance, heap, held, buttonText, buttonTitle,
                    disclosureClassList, uiClassList, dispatched>>
scrollContainerVars ==
    <<configVars, sizeVars, scrollVars, adjustVars, frameVars, dragVars, style, classList,
      pointer, pressVars, observerVars, contentVars, opResult, events>>
vars == <<scrollContainerVars, disclosureVars>>

\* ------------------------------------------------- disclosure container

\* undefined
Undefined == "undefined"
\* A boolean as a value that may be undefined as well.
Bool(b) == IF b THEN "true" ELSE "false"
\* `if (this._disclosed)`
Truthy(v) == v = "true"

\* The arrays of the default labels, and the arrays of a labels object of
\* the caller.
DefaultCaptions == "d1"
DefaultTitles == "d2"
CallerCaptions == "c1"
CallerTitles == "t1"
InitialHeap ==
    [d1 |-> <<"+", "-">>, d2 |-> <<"", "">>,
     c1 |-> <<"Show", "Hide">>, t1 |-> <<"Show details", "Hide details">>]

\* The labels objects given to labels(): Captions and Titles are arrays of
\* the caller or undefined.
LabelArgs == [Captions : {Undefined, CallerCaptions}, Titles : {Undefined, CallerTitles}]

Appearances ==
    {"TOP_LEFT", "TOP_RIGHT", "RIGHT_TOP", "RIGHT_BOTTOM", "BOTTOM_RIGHT", "BOTTOM_LEFT",
     "LEFT_BOTTOM", "LEFT_TOP"}
\* The class appearance() sets for an appearance.
AppearanceClass ==
    [TOP_LEFT |-> "top-left", TOP_RIGHT |-> "top-right", RIGHT_TOP |-> "right-top",
     RIGHT_BOTTOM |-> "right-bottom", BOTTOM_RIGHT |-> "bottom-right",
     BOTTOM_LEFT |-> "bottom-left", LEFT_BOTTOM |-> "left-bottom", LEFT_TOP |-> "left-top"]
AppearanceClasses == {AppearanceClass[a] : a \in Appearances}

\* The event 'disclose' for the state v, as it is after its handlers ran.
DiscloseEvent(v, prevented) == [Disclosed |-> v, defaultPrevented |-> prevented]

\* dispatchEvent(): false if a handler of the event called preventDefault().
DispatchEventIgnoringPrevent(prevented) == TRUE
DispatchEvent(prevented) == ~prevented

\* The element of Captions and Titles shown for the state v, with the
\* elements of an array counted from 1: [0] unless v is true.
LabelIndexSwapped(v) == IF Truthy(v) THEN 1 ELSE 2
LabelIndex(v) == IF Truthy(v) THEN 2 ELSE 1

\* The disclosure container before its constructor calls labels().
Blank ==
    [_disclosed |-> Undefined, _labels |-> [Captions |-> Undefined, Titles |-> Undefined],
     _appearance |-> Undefined, heap |-> InitialHeap, held |-> {}, buttonText |-> "",
     buttonTitle |-> "", disclosureClassList |-> {}, uiClassList |-> {}, dispatched |-> <<>>]

\* labels(l) on the disclosure container c. `??` takes the array of l or a
\* new array with the default labels.
LabelsOn(c, l) ==
    LET stored == [Captions |-> IF l.Captions = Undefined THEN DefaultCaptions ELSE l.Captions,
                   Titles |-> IF l.Titles = Undefined THEN DefaultTitles ELSE l.Titles]
        new == {DefaultCaptions : x \in {l.Captions} \cap {Undefined}}
                  \cup {DefaultTitles : x \in {l.Titles} \cap {Undefined}}
        h == [r \in DOMAIN c.heap |-> IF r \in new THEN InitialHeap[r] ELSE c.heap[r]]
    IN  [c EXCEPT !._labels = stored,
                  !.heap = h,
                  !.held = @ \ new,
                  !.buttonText = h[stored.Captions][LabelIndex(c._disclosed)],
                  !.buttonTitle = h[stored.Titles][LabelIndex(c._disclosed)]]

\* disclosed(v) on the disclosure container c, with a handler of the
\* 'disclose' event that calls preventDefault() or with none.
DisclosedOn(c, v, prevented) ==
    IF v # c._disclosed
    THEN IF ~DispatchEvent(prevented)
         THEN [c EXCEPT !.dispatched = Append(@, DiscloseEvent(v, prevented))]
         ELSE [c EXCEPT !.dispatched = Append(@, DiscloseEvent(v, prevented)),
                        !._disclosed = v,
                        !.disclosureClassList =
                            IF Truthy(v) THEN (@ \ {"undisclosed"}) \cup {"disclosed"}
                                         ELSE (@ \ {"disclosed"}) \cup {"undisclosed"},
                        !.buttonText = c.heap[c._labels.Captions][LabelIndex(v)],
                        !.buttonTitle = c.heap[c._labels.Titles][LabelIndex(v)]]
    ELSE c

\* appearance(a) on the disclosure container c.
AppearanceOn(c, a) ==
    IF c._appearance # a
    THEN [c EXCEPT !._appearance = a,
                   !.uiClassList = (@ \ AppearanceClasses) \cup {AppearanceClass[a]}]
    ELSE c

\* new DisclosureContainer(header, content, l, d, a): no handler of 'disclose'
\* is subscribed yet.
New(l, d, a) == AppearanceOn(DisclosedOn(LabelsOn(Blank, l), Bool(d), FALSE), a)

\* The disclosure container as a record, and as the values of the variables.
This ==
    [_disclosed |-> _disclosed, _labels |-> _labels, _appearance |-> _appearance,
     heap |-> heap, held |-> held, buttonText |-> buttonText, buttonTitle |-> buttonTitle,
     disclosureClassList |-> disclosureClassList, uiClassList |-> uiClassList,
     dispatched |-> dispatched]
Is(c) ==
    /\ _disclosed = c._disclosed
    /\ _labels = c._labels
    /\ _appearance = c._appearance
    /\ heap = c.heap
    /\ held = c.held
    /\ buttonText = c.buttonText
    /\ buttonTitle = c.buttonTitle
    /\ disclosureClassList = c.disclosureClassList
    /\ uiClassList = c.uiClassList
    /\ dispatched = c.dispatched
Becomes(c) ==
    /\ _disclosed' = c._disclosed
    /\ _labels' = c._labels
    /\ _appearance' = c._appearance
    /\ heap' = c.heap
    /\ held' = c.held
    /\ buttonText' = c.buttonText
    /\ buttonTitle' = c.buttonTitle
    /\ disclosureClassList' = c.disclosureClassList
    /\ uiClassList' = c.uiClassList
    /\ dispatched' = c.dispatched

\* labels(l)
Labels ==
    /\ \E l \in LabelArgs : Becomes(LabelsOn(This, l))
    /\ UNCHANGED scrollContainerVars

\* disclosed(v)
Disclosed(v, prevented) ==
    /\ Len(dispatched) < MaxDispatched
    /\ Becomes(DisclosedOn(This, Bool(v), prevented))
    /\ UNCHANGED scrollContainerVars

\* disclosed(v), with a handler of the 'disclose' event that calls
\* preventDefault() or with none
SetDisclosed == \E v \in BOOLEAN, prevented \in BOOLEAN : Disclosed(v, prevented)

\* toggleDisclosed(), also by a click on the disclose button
ToggleDisclosed ==
    /\ Len(dispatched) < MaxDispatched
    /\ \E prevented \in BOOLEAN :
          Becomes(DisclosedOn(This, Bool(~Truthy(_disclosed)), prevented))
    /\ UNCHANGED scrollContainerVars

\* appearance(a)
Appearance ==
    /\ \E a \in Appearances : Becomes(AppearanceOn(This, a))
    /\ UNCHANGED scrollContainerVars

\* The Labels getter: the caller gets a new object with the arrays of _labels.
GetLabels ==
    /\ held' = held \cup {_labels.Captions, _labels.Titles}
    /\ UNCHANGED <<scrollContainerVars, _disclosed, _labels, _appearance, heap, buttonText,
                   buttonTitle, disclosureClassList, uiClassList, dispatched>>

\* The caller writes an element of one of its arrays or of an array it got
\* from the Labels getter.
CallerWrites ==
    /\ Cardinality({c \in (DOMAIN heap) \X (1..2) : heap[c[1]][c[2]] = "changed"}) < MaxWrites
    /\ \E r \in {CallerCaptions, CallerTitles} \cup held, i \in 1..2 :
          /\ heap[r][i] # "changed"
          /\ heap' = [heap EXCEPT ![r][i] = "changed"]
    /\ UNCHANGED <<scrollContainerVars, _disclosed, _labels, _appearance, held, buttonText,
                   buttonTitle, disclosureClassList, uiClassList, dispatched>>

\* -------------------------------------------------------- scroll container

\* The scroll container after construction.
ScrollContainerInit ==
    /\ horizontal \in BOOLEAN
    /\ vertical \in BOOLEAN
    /\ native = FALSE
    /\ attached = {"hBarOverlay" : x \in {horizontal} \cap {TRUE}}
                      \cup {"vBarOverlay" : x \in {vertical} \cap {TRUE}}
    /\ modeClassList = {"horizontal" : x \in {horizontal} \cap {TRUE}}
                           \cup {"vertical" : x \in {vertical} \cap {TRUE}}
    /\ scrollListening = TRUE
    /\ overflow = ""
    /\ overflowTimers = <<>>
    /\ \E g \in AxisGeometry :
          clientWidth = g[1] /\ scrollWidth = g[2] /\ offsetWidth = g[3]
    /\ \E g \in AxisGeometry :
          clientHeight = g[1] /\ scrollHeight = g[2] /\ offsetHeight = g[3]
    /\ scrollLeft = 0
    /\ scrollTop = 0
    /\ scrollEventPending = FALSE
    /\ painted = FALSE
    /\ hBarLeftOffset = 0
    /\ hBarReduceWidth = 0
    /\ vBarTopOffset = 0
    /\ vBarReduceHeight = 0
    /\ style = [hBarOverlayDisplay |-> "", hBarOverlayLeft |-> Unset,
                hBarOverlayWidth |-> Unset, hBarThumbWidth |-> Unset,
                hBarThumbLeft |-> Unset,
                vBarOverlayDisplay |-> "", vBarOverlayTop |-> Unset,
                vBarOverlayHeight |-> Unset, vBarThumbHeight |-> Unset,
                vBarThumbTop |-> Unset]
    /\ classList = {}
    \* The constructor calls horizontalAdjustment() and verticalAdjustment(),
    \* each of which calls syncScrollBars(); native(false) changes nothing.
    /\ pending = 2
    /\ rafQueue = <<"sync", "sync">>
    /\ dragging = FALSE
    /\ dragStart = [x |-> NegInfinity, y |-> NegInfinity]
    /\ dragStartElementPos = [x |-> NegInfinity, y |-> NegInfinity]
    /\ draggingThumb = NoThumb
    /\ draggingThumbRect = [x |-> 0, y |-> 0, width |-> 0, height |-> 0]
    /\ draggingBarRect = [x |-> 0, y |-> 0, width |-> 0, height |-> 0]
    /\ contScrollHorizontal = FALSE
    /\ moveListeners = {}
    /\ pointer = NoThumb
    /\ cleanupTimers = 0
    /\ contScrollStartPos = [x |-> 0, y |-> 0]
    /\ isPointerDown = FALSE
    /\ contScrollBackwards = FALSE
    /\ scrollPageLength = [n |-> 0, d |-> 1]
    /\ lastScrollPos = [x |-> 0, y |-> 0]
    /\ onScrollEndTimeout = FALSE
    /\ smoothScroll = NoScroll
    /\ hAdjustment = NoAdjustment
    /\ vAdjustment = NoAdjustment
    /\ elementBox = [e \in Elements |-> FirstBox]
    /\ adjustmentObserved = {}
    /\ adjustmentEntries = {}
    /\ children = {}
    /\ mutationRecords = <<>>
    /\ resizeObserved = {Surface}
    /\ opResult = "none"
    /\ events = 0

\* A scroll container and a disclosure container with the default labels,
\* after construction.
Init ==
    /\ ScrollContainerInit
    /\ Is(New([Captions |-> Undefined, Titles |-> Undefined], TRUE, "TOP_LEFT"))

\* ------------------------------------------------------------- the surface

MaxScrollLeft == scrollWidth - clientWidth
MaxScrollTop == scrollHeight - clientHeight

Clamp(v, lo, hi) == Max(lo, Min(v, hi))

\* ------------------------------------------------------------------ layout

\* offsetWidth of hBar: the width of its overlay (width: 100%); an overlay
\* without an inline width is as wide as the surface.
HTrackLengthOf(st) ==
    IF st.hBarOverlayWidth.u = "px" THEN Max(0, st.hBarOverlayWidth.n)
    ELSE clientWidth

HTrackLength == HTrackLengthOf(style)

\* offsetHeight of vBar: the height of its overlay (height: 100%); without an
\* inline height the rule `&.h-off > .v-bar-overlay { height: 100% }` applies,
\* and without it the overlay is as high as its content, the thumb.
VTrackLengthOf(st, cl) ==
    IF st.vBarOverlayHeight.u = "px" THEN Max(0, st.vBarOverlayHeight.n)
    ELSE IF "h-off" \in cl THEN clientHeight ELSE MinThumbSize

VTrackLength == VTrackLengthOf(style, classList)

\* The length of a thumb in a track of length t: its inline width/height (the
\* style sheet's 100% without one), not below min-width/min-height.
ThumbLength(size, t) ==
    IF size.u = "pct" THEN Max(MinThumbSize, Round(size.n * t, size.d))
    ELSE IF size.u = "px" THEN Max(MinThumbSize, size.n)
    ELSE Max(MinThumbSize, t)

\* offsetLeft/offsetTop of a thumb (position: relative) in a track of length t.
ThumbOffset(pos, t) ==
    IF pos.u = "pct" THEN Round(pos.n * t, pos.d)
    ELSE IF pos.u = "px" THEN pos.n
    ELSE 0

\* The layout rectangle of a thumb and the size of its track.
ThumbRect(t) ==
    IF t = "h"
    THEN [x |-> ThumbOffset(style.hBarThumbLeft, HTrackLength), y |-> 0,
          width |-> ThumbLength(style.hBarThumbWidth, HTrackLength),
          height |-> ScrollBarSize]
    ELSE [x |-> 0, y |-> ThumbOffset(style.vBarThumbTop, VTrackLength),
          width |-> ScrollBarSize,
          height |-> ThumbLength(style.vBarThumbHeight, VTrackLength)]

BarSize(t) ==
    IF t = "h" THEN [width |-> HTrackLength, height |-> ScrollBarSize]
    ELSE [width |-> ScrollBarSize, height |-> VTrackLength]

\* offsetLeft, offsetTop, offsetWidth and offsetHeight of thumb t with the
\* inline styles st and the class list cl; all 0 for a thumb that is not
\* rendered (its overlay is not attached or not displayed).
ThumbBox(t, st, cl) ==
    IF t = "h" /\ horizontal /\ st.hBarOverlayDisplay # "none"
    THEN [offsetLeft |-> ThumbOffset(st.hBarThumbLeft, HTrackLengthOf(st)),
          offsetTop |-> 0,
          offsetWidth |-> ThumbLength(st.hBarThumbWidth, HTrackLengthOf(st)),
          offsetHeight |-> ScrollBarSize]
    ELSE IF t = "v" /\ vertical /\ st.vBarOverlayDisplay # "none"
    THEN [offsetLeft |-> 0,
          offsetTop |-> ThumbOffset(st.vBarThumbTop, VTrackLengthOf(st, cl)),
          offsetWidth |-> ScrollBarSize,
          offsetHeight |-> ThumbLength(st.vBarThumbHeight, VTrackLengthOf(st, cl))]
    ELSE [offsetLeft |-> 0, offsetTop |-> 0, offsetWidth |-> 0, offsetHeight |-> 0]

\* A pointer can be pressed on thumb t: the thumb has been painted and its
\* overlay is attached and displayed, and no pointer is pressed already.
CanPress(t) ==
    /\ painted
    /\ events < MaxEvents
    /\ pointer = NoThumb
    /\ IF t = "h" THEN horizontal /\ style.hBarOverlayDisplay # "none"
       ELSE vertical /\ style.vBarOverlayDisplay # "none"

\* ------------------------------------------------- the recomputation pass

\* `scrollWidth || -0.000001`: a scroll extent of 0 is replaced by -1/1000000.
ScrollExtent(raw) == IF raw = 0 THEN Frac(-1, EpsilonDen) ELSE Frac(raw, 1)

\* `w < sw` for an integer w and a fraction sw.
Less(w, sw) == w * sw.d < sw.n

\* TrackDisplay with `<=` for `<`.
TrackDisplayShownWhenEqual(w, sw) == IF w * sw.d <= sw.n THEN "" ELSE "none"

\* `w < sw ? "" : "none"`
TrackDisplay(w, sw) == IF Less(w, sw) THEN "" ELSE "none"

\* ThumbSize without the case of content that does not overflow.
ThumbSizeUnclamped(w, sw) == Pct(w * sw.d, sw.n)

\* `w < sw ? (w / sw * 100) + "%" : "100%"`
ThumbSize(w, sw) == IF Less(w, sw) THEN Pct(w * sw.d, sw.n) ELSE Pct(1, 1)

\* ThumbPosition with the operands of the division exchanged.
ThumbPositionInverted(offset, sw) ==
    IF offset = 0 THEN Pct(0, 1) ELSE Pct(sw.n, offset * sw.d)

\* `(scrollLeft / sw * 100) + "%"`
ThumbPosition(offset, sw) == Pct(offset * sw.d, sw.n)

\* offsetWidth of vBar / offsetHeight of hBar: the thickness of a track that
\* is rendered, 0 for a track whose overlay is not displayed or not attached.
BarThickness(overlay, display) ==
    IF display = "none" \/ overlay \notin attached THEN 0 ELSE ScrollBarSize

\* The callback given to requestAnimationFrame() in syncScrollBars(), applied
\* to the inline styles st and the class list cl of a surface scrolled to
\* (left, top).
PassAt(st, cl, left, top) ==
    LET sw == ScrollExtent(scrollWidth)
        sh == ScrollExtent(scrollHeight)
        hboWidth == clientWidth - hBarLeftOffset - hBarReduceWidth
        vboHeight == clientHeight - vBarTopOffset - vBarReduceHeight
        hasHOff == horizontal /\ ~Less(clientWidth, sw)
        hasVOff == vertical /\ ~Less(clientHeight, sh)
        st1 == IF horizontal
               THEN [st EXCEPT !.hBarOverlayDisplay = TrackDisplay(clientWidth, sw),
                               !.hBarOverlayLeft = Px(hBarLeftOffset + hBarReduceWidth),
                               !.hBarThumbWidth = ThumbSize(clientWidth, sw),
                               !.hBarThumbLeft = ThumbPosition(left, sw)]
               ELSE [st EXCEPT !.hBarOverlayDisplay = "none"]
        cl1 == IF horizontal
               THEN IF hasHOff THEN cl \cup {"h-off"} ELSE cl \ {"h-off"}
               ELSE cl
        st2 == IF vertical
               THEN [st1 EXCEPT !.vBarOverlayDisplay = TrackDisplay(clientHeight, sh),
                                !.vBarOverlayTop = Px(vBarTopOffset + vBarReduceHeight),
                                !.vBarThumbHeight = ThumbSize(clientHeight, sh),
                                !.vBarThumbTop = ThumbPosition(top, sh)]
               ELSE [st1 EXCEPT !.vBarOverlayDisplay = "none"]
        cl2 == IF vertical
               THEN IF hasVOff THEN cl1 \cup {"v-off"} ELSE cl1 \ {"v-off"}
               ELSE cl1
        st3 == IF horizontal
               THEN [st2 EXCEPT !.hBarOverlayWidth =
                        IF ~hasVOff
                        THEN Px(hboWidth - BarThickness("vBarOverlay", st2.vBarOverlayDisplay) - ThumbGap)
                        ELSE Px(hboWidth)]
               ELSE st2
        st4 == IF vertical /\ "h-off" \notin cl2
               THEN [st3 EXCEPT !.vBarOverlayHeight =
                        IF ~hasHOff
                        THEN Px(vboHeight - BarThickness("hBarOverlay", st3.hBarOverlayDisplay) - ThumbGap)
                        ELSE Px(vboHeight)]
               ELSE st3
    IN  [style |-> st4, classList |-> cl2]

Pass(st, cl) == PassAt(st, cl, scrollLeft, scrollTop)

\* n recomputation passes one after the other.
RECURSIVE Passes(_, _, _)
Passes(n, st, cl) ==
    IF n = 0 THEN [style |-> st, classList |-> cl]
    ELSE LET r == Pass(st, cl) IN Passes(n - 1, r.style, r.classList)

\* rectContains(rect, point) with rect given by its edges.
RectContains(left, top, right, bottom, point) ==
    /\ point.x >= left
    /\ point.y >= top
    /\ point.x <= right
    /\ point.y <= bottom

\* `new DOMRect(offsetLeft, offsetTop, offsetLeft + offsetWidth, offsetTop +
\* offsetHeight)` of rafScroll: the DOMRect (x, y, width, height) of thumb
\* box b by its edges left, top, right = x + width and bottom = y + height.
StepThumbRect(b) ==
    [left |-> b.offsetLeft,
     top |-> b.offsetTop,
     right |-> b.offsetLeft + (b.offsetLeft + b.offsetWidth),
     bottom |-> b.offsetTop + (b.offsetTop + b.offsetHeight)]

\* StepStops without `if (!this.isPointerDown)`.
StepStopsIgnoringPointer(st, cl) ==
    LET r == StepThumbRect(ThumbBox(IF contScrollHorizontal THEN "h" ELSE "v", st, cl))
    IN  RectContains(r.left, r.top, r.right, r.bottom, contScrollStartPos)

\* rafScroll stops: the pointer is not down, or thumbRect contains
\* contScrollStartPos.
StepStops(st, cl) ==
    \/ ~isPointerDown
    \/ LET r == StepThumbRect(ThumbBox(IF contScrollHorizontal THEN "h" ELSE "v", st, cl))
       IN  RectContains(r.left, r.top, r.right, r.bottom, contScrollStartPos)

\* _dom_.scrollBy() by the fraction by from the offset from: the offset the
\* surface is scrolled to, within [0, max].
ScrollBy(from, by, max) == Clamp(Round(from * by.d + by.n, by.d), 0, max)

\* contScrollDistance: +/- scrollPageLength / 10.
ContScrollDistance ==
    [n |-> IF contScrollBackwards THEN -scrollPageLength.n ELSE scrollPageLength.n,
     d |-> 10 * scrollPageLength.d]

\* rafScroll() in the state r of the frame (inline styles, class list, scroll
\* offsets and the callbacks queued for the next frame).
RafScroll(r) ==
    IF StepStops(r.style, r.classList)
    THEN [r EXCEPT !.classList = @ \ {"scrolling"}]
    ELSE [r EXCEPT
            !.scrollLeft = IF contScrollHorizontal
                           THEN ScrollBy(@, ContScrollDistance, MaxScrollLeft) ELSE @,
            !.scrollTop = IF contScrollHorizontal
                          THEN @ ELSE ScrollBy(@, ContScrollDistance, MaxScrollTop),
            !.queue = Append(@, "step")]

\* The queued animation frame callbacks q run one after the other.
RECURSIVE RunCallbacks(_, _)
RunCallbacks(q, r) ==
    IF q = <<>> THEN r
    ELSE IF Head(q) = "sync"
    THEN CHOOSE out \in
            {RunCallbacks(Tail(q), [r EXCEPT !.style = w.style, !.classList = w.classList]) :
                w \in {PassAt(r.style, r.classList, r.scrollLeft, r.scrollTop)}} : TRUE
    ELSE CHOOSE out \in {RunCallbacks(Tail(q), w) : w \in {RafScroll(r)}} : TRUE

\* The state in which the callbacks of a frame or of a timer start.
Now == [style |-> style, classList |-> classList, scrollLeft |-> scrollLeft,
        scrollTop |-> scrollTop, queue |-> <<>>]

\* An animation frame: every queued callback runs, in the order of the
\* requestAnimationFrame() calls; a callback queued by a callback runs in the
\* next frame.
Frame ==
    /\ rafQueue # <<>> \/ ~painted
    /\ \E r \in {RunCallbacks(rafQueue, Now)} :
           /\ style' = r.style
           /\ classList' = r.classList
           /\ scrollLeft' = r.scrollLeft
           /\ scrollTop' = r.scrollTop
           /\ rafQueue' = r.queue
    /\ scrollEventPending' =
          (scrollEventPending \/ scrollLeft' # scrollLeft \/ scrollTop' # scrollTop)
    /\ smoothScroll' =
          IF scrollLeft' # scrollLeft \/ scrollTop' # scrollTop THEN NoScroll ELSE smoothScroll
    /\ pending' = 0
    /\ painted' = TRUE
    /\ UNCHANGED <<configVars, sizeVars, adjustVars, dragVars, pointer, pressSession, endVars,
                   observerVars, contentVars, opResult, disclosureVars, events>>

\* syncScrollBars(event) with `if (this.dragging) return` as its first statement.
SyncScrollBarsSilentWhileDragging(event) ==
    /\ classList' = IF event /\ ~dragging THEN classList \cup {"scrolling"} ELSE classList
    /\ pending' = IF dragging THEN pending ELSE pending + 1
    /\ rafQueue' = IF dragging THEN rafQueue ELSE Append(rafQueue, "sync")

\* syncScrollBars(event) without `if (this.dragging) return`.
SyncScrollBarsWhileDragging(event) ==
    /\ classList' = IF event THEN classList \cup {"scrolling"} ELSE classList
    /\ pending' = pending + 1
    /\ rafQueue' = Append(rafQueue, "sync")

\* syncScrollBars(event): what the call changes.
SyncScrollBars(event) ==
    /\ classList' = IF event THEN classList \cup {"scrolling"} ELSE classList
    /\ pending' = IF dragging THEN pending ELSE pending + 1
    /\ rafQueue' = IF dragging THEN rafQueue ELSE Append(rafQueue, "sync")

\* The call is possible within the bound on the queue.
CanSync == dragging \/ pending < MaxPending

\* ---------------------------------------------------------- sync triggers

\* The user scrolls the surface along an enabled axis (the style sheet makes
\* an axis scrollable only with its class set and without "dragging").
UserScroll ==
    /\ "dragging" \notin classList
    /\ events < MaxEvents
    /\ events' = events + 1
    /\ \/ /\ horizontal
          /\ \E o \in ScrollStops(<<clientWidth, scrollWidth>>) :
                o # scrollLeft /\ scrollLeft' = o
          /\ UNCHANGED scrollTop
       \/ /\ vertical
          /\ \E o \in ScrollStops(<<clientHeight, scrollHeight>>) :
                o # scrollTop /\ scrollTop' = o
          /\ UNCHANGED scrollLeft
    /\ scrollEventPending' = TRUE
    /\ smoothScroll' = NoScroll
    /\ UNCHANGED <<configVars, sizeVars, adjustVars, frameVars, dragVars, style, classList,
                   pointer, pressSession, endVars, observerVars, contentVars, opResult, disclosureVars>>

\* The "scroll" event of _dom_ is dispatched to onScrollListener, which is
\* syncScrollBars(event), and to onScrollEndListener, which is
\* onScrollEnd(event): it records the scroll offsets and arms its timer anew.
ScrollEvent ==
    /\ scrollEventPending
    /\ CanSync
    /\ scrollEventPending' = FALSE
    /\ SyncScrollBars(TRUE)
    /\ lastScrollPos' = [x |-> scrollLeft, y |-> scrollTop]
    /\ onScrollEndTimeout' = TRUE
    /\ UNCHANGED <<configVars, sizeVars, scrollLeft, scrollTop, adjustVars, painted, dragVars,
                   style, pointer, pressSession, smoothScroll, observerVars, contentVars, opResult, disclosureVars,
                   events>>

\* The number of rafScroll callbacks in the queue q.
StepCount(q) == Cardinality({i \in DOMAIN q : q[i] = "step"})

\* The callback of the setTimeout(.., 50) of onScrollEnd(): if the surface
\* has not been scrolled since the last scroll event, rafScroll() is called.
ScrollEndTimeout ==
    /\ onScrollEndTimeout
    /\ onScrollEndTimeout' = FALSE
    /\ IF lastScrollPos # [x |-> scrollLeft, y |-> scrollTop]
       THEN /\ classList' = classList \ {"scrolling"}
            /\ UNCHANGED <<scrollVars, rafQueue, smoothScroll>>
       ELSE \E r \in {RafScroll(Now)} :
                /\ r.queue # <<>> => StepCount(rafQueue) < MaxSteps
                /\ classList' = r.classList
                /\ scrollLeft' = r.scrollLeft
                /\ scrollTop' = r.scrollTop
                /\ rafQueue' = rafQueue \o r.queue
                /\ scrollEventPending' =
                      (scrollEventPending \/ scrollLeft' # scrollLeft \/ scrollTop' # scrollTop)
                /\ smoothScroll' =
                      IF scrollLeft' # scrollLeft \/ scrollTop' # scrollTop
                      THEN NoScroll ELSE smoothScroll
    /\ UNCHANGED <<configVars, sizeVars, adjustVars, pending, painted, dragVars, style,
                   pointer, pressSession, lastScrollPos, observerVars, contentVars, opResult, disclosureVars, events>>

\* The smooth scroll in progress moves the surface: first half the way to
\* its target, then to its target, where it ends.
SmoothScrollStep ==
    /\ smoothScroll.axis # "none"
    /\ LET max == IF smoothScroll.axis = "h" THEN MaxScrollLeft ELSE MaxScrollTop
           from == IF smoothScroll.axis = "h" THEN scrollLeft ELSE scrollTop
           target == Clamp(smoothScroll.target, 0, max)
           to == IF smoothScroll.half THEN target ELSE (from + target) \div 2
       IN  /\ IF smoothScroll.axis = "h"
              THEN scrollLeft' = to /\ UNCHANGED scrollTop
              ELSE scrollTop' = to /\ UNCHANGED scrollLeft
           /\ smoothScroll' = IF smoothScroll.half \/ to = target THEN NoScroll
                              ELSE [smoothScroll EXCEPT !.half = TRUE]
           /\ scrollEventPending' = (scrollEventPending \/ to # from)
    /\ UNCHANGED <<configVars, sizeVars, adjustVars, frameVars, dragVars, style, classList,
                   pointer, pressSession, endVars, observerVars, contentVars, opResult, disclosureVars, events>>

\* The surface or a child of the content area changes its size along one axis
\* (the scroll offset stays within the new range) and the callback of
\* resizeObserver runs.
Resize ==
    /\ events < MaxEvents
    /\ CanSync
    /\ events' = events + 1
    /\ \/ /\ \E g \in AxisGeometry :
                /\ g # <<clientWidth, scrollWidth, offsetWidth>>
                /\ clientWidth' = g[1]
                /\ scrollWidth' = g[2]
                /\ offsetWidth' = g[3]
                /\ scrollLeft' = Min(scrollLeft, g[2] - g[1])
          /\ UNCHANGED <<clientHeight, scrollHeight, offsetHeight, scrollTop>>
       \/ /\ \E g \in AxisGeometry :
                /\ g # <<clientHeight, scrollHeight, offsetHeight>>
                /\ clientHeight' = g[1]
                /\ scrollHeight' = g[2]
                /\ offsetHeight' = g[3]
                /\ scrollTop' = Min(scrollTop, g[2] - g[1])
          /\ UNCHANGED <<clientWidth, scrollWidth, offsetWidth, scrollLeft>>
    /\ scrollEventPending' =
          (scrollEventPending \/ scrollLeft' # scrollLeft \/ scrollTop' # scrollTop)
    /\ IF vertical \/ horizontal
       THEN SyncScrollBars(FALSE)
       ELSE UNCHANGED <<classList, pending, rafQueue>>
    /\ UNCHANGED <<configVars, adjustVars, painted, dragVars, style, pointer, pressVars,
                   observerVars, contentVars, opResult, disclosureVars>>

\* -------------------------------------------------------------- dragging

\* A pointer-down with event.target the thumb t and (event.clientX,
\* event.clientY) = p: onDragThumbPointerDown(event), which captures the
\* pointer to the thumb, then onScrollBarPointerDown(event) of the track.
OnDragThumbPointerDown(t, p) ==
    /\ CanPress(t)
    /\ dragging' = TRUE
    /\ contScrollHorizontal' = (draggingThumb = "h")
    /\ dragStart' = [x |-> p[1], y |-> p[2]]
    /\ dragStartElementPos' = [x |-> scrollLeft, y |-> scrollTop]
    /\ draggingThumb' = t
    /\ draggingThumbRect' = ThumbRect(t)
    /\ draggingBarRect' = [draggingBarRect EXCEPT !.width = BarSize(t).width,
                                                  !.height = BarSize(t).height]
    /\ moveListeners' = moveListeners \cup {t}
    /\ pointer' = t
    /\ events' = events + 1
    /\ classList' = classList \cup {"dragging"}
    \* The event bubbles to the track: onScrollBarPointerDown(event) records
    \* its offset and, the target being no track, does nothing else.
    /\ contScrollStartPos' = ThumbGrip
    /\ UNCHANGED <<configVars, sizeVars, scrollVars, adjustVars, frameVars,
                   cleanupTimers, style, isPointerDown, contScrollBackwards,
                   scrollPageLength, endVars, smoothScroll, observerVars, contentVars, opResult, disclosureVars>>

PointerDown == \E t \in Thumbs, p \in Points : OnDragThumbPointerDown(t, p)

\* The new leading edge of the dragged thumb: Math.max(0, edge + delta), then
\* Math.min(.., trackLength - thumbLength).
DragEdge(edge, delta, trackLength, thumbLength) ==
    Min(Max(0, edge + delta), trackLength - thumbLength)

\* The offset given to scrollTo(): start + delta * f with
\* f = (scrollExtent - offsetExtent) / (trackLength - thumbLength), as the
\* fraction [n, d]. A division by 0 gives a value that is not finite, which
\* scrollTo() takes as 0.
DragScroll(start, delta, scrollExtent, offsetExtent, trackLength, thumbLength) ==
    IF trackLength - thumbLength = 0 THEN Frac(0, 1)
    ELSE Frac(start * (trackLength - thumbLength) + delta * (scrollExtent - offsetExtent),
              trackLength - thumbLength)

\* _dom_.scrollTo() with the offset r (a fraction): the offset the surface is
\* scrolled to, within [0, max].
ScrollTo(r, max) == Clamp(Round(r.n, r.d), 0, max)

\* onDragThumbPointerMove(event) with (event.clientX, event.clientY) = p,
\* delivered to a thumb on which the listener is subscribed.
OnDragThumbPointerMove(p) ==
    /\ moveListeners # {}
    /\ IF draggingThumb = "h"
       THEN LET dx == p[1] - dragStart.x
                r == DragScroll(dragStartElementPos.x, dx, scrollWidth, offsetWidth,
                                draggingBarRect.width, draggingThumbRect.width)
            IN  /\ style' = [style EXCEPT !.hBarThumbLeft =
                        Px(DragEdge(draggingThumbRect.x, dx, draggingBarRect.width,
                                    draggingThumbRect.width))]
                /\ scrollLeft' = ScrollTo(r, MaxScrollLeft)
                /\ UNCHANGED scrollTop
       ELSE IF draggingThumb = "v"
       THEN LET dy == p[2] - dragStart.y
                r == DragScroll(dragStartElementPos.y, dy, scrollHeight, offsetHeight,
                                draggingBarRect.height, draggingThumbRect.height)
            IN  /\ style' = [style EXCEPT !.vBarThumbTop =
                        Px(DragEdge(draggingThumbRect.y, dy, draggingBarRect.height,
                                    draggingThumbRect.height))]
                /\ scrollTop' = ScrollTo(r, MaxScrollTop)
                /\ UNCHANGED scrollLeft
       ELSE UNCHANGED <<style, scrollLeft, scrollTop>>
    /\ scrollEventPending' =
          (scrollEventPending \/ scrollLeft' # scrollLeft \/ scrollTop' # scrollTop)
    /\ smoothScroll' =
          IF scrollLeft' # scrollLeft \/ scrollTop' # scrollTop THEN NoScroll ELSE smoothScroll
    /\ UNCHANGED <<configVars, sizeVars, adjustVars, frameVars, dragVars, classList,
                   pointer, pressSession, endVars, observerVars, contentVars, opResult, disclosureVars, events>>

PointerMove == \E p \in Points : OnDragThumbPointerMove(p)

\* The pointer captured to a thumb is released: onDragThumbPointerUp(event),
\* which while dragging defers the cleanup with setTimeout(.., 1), then
\* onScrollBarPointerUp(event) of the track.
OnDragThumbPointerUp ==
    /\ pointer \in Thumbs
    /\ dragging => cleanupTimers < MaxCleanups
    /\ pointer' = NoThumb
    /\ cleanupTimers' = IF dragging THEN cleanupTimers + 1 ELSE cleanupTimers
    /\ isPointerDown' = FALSE
    /\ UNCHANGED <<configVars, sizeVars, scrollVars, adjustVars, frameVars, dragging,
                   dragStart, dragStartElementPos, draggingThumb, draggingThumbRect,
                   draggingBarRect, contScrollHorizontal, moveListeners, style, classList,
                   contScrollStartPos, contScrollBackwards, scrollPageLength, endVars,
                   smoothScroll, observerVars, contentVars, opResult, disclosureVars, events>>

\* The callback of the setTimeout() in onDragThumbPointerUp(). Without an
\* active thumb `this.draggingThumb!.removeEventListener` throws a TypeError
\* after `this.dragging = false`.
DragCleanup ==
    /\ cleanupTimers > 0
    /\ cleanupTimers' = cleanupTimers - 1
    /\ dragging' = FALSE
    /\ IF draggingThumb = NoThumb
       THEN UNCHANGED <<moveListeners, draggingThumb, dragStart, dragStartElementPos,
                        classList>>
       ELSE /\ moveListeners' = moveListeners \ {draggingThumb}
            /\ draggingThumb' = NoThumb
            /\ dragStart' = [x |-> NegInfinity, y |-> NegInfinity]
            /\ dragStartElementPos' = [x |-> NegInfinity, y |-> NegInfinity]
            /\ classList' = classList \ {"dragging"}
    /\ UNCHANGED <<configVars, sizeVars, scrollVars, adjustVars, frameVars,
                   draggingThumbRect, draggingBarRect, contScrollHorizontal, style, pointer,
                   pressVars, observerVars, contentVars, opResult, disclosureVars, events>>

\* ------------------------------------------------------------ track press

\* The leading edge of a thumb in a track of length t as laid out, a fraction
\* of a pixel included (offsetLeft/offsetTop is this value rounded).
ThumbStart(pos, t) ==
    IF pos.u = "pct" THEN Frac(pos.n * t, pos.d)
    ELSE IF pos.u = "px" THEN Frac(pos.n, 1)
    ELSE Frac(0, 1)

\* The length of a thumb in a track of length t as laid out.
ThumbExtent(size, t) ==
    IF size.u = "pct"
    THEN IF size.n * t >= MinThumbSize * size.d THEN Frac(size.n * t, size.d)
         ELSE Frac(MinThumbSize, 1)
    ELSE IF size.u = "px" THEN Frac(Max(MinThumbSize, size.n), 1)
    ELSE Frac(Max(MinThumbSize, t), 1)

\* The point q of a track of length t lies on the thumb: hit testing takes
\* the thumb as laid out.
OnThumb(q, pos, size, t) ==
    LET a == ThumbStart(pos, t)
        l == ThumbExtent(size, t)
    IN  /\ q * a.d >= a.n
        /\ q * a.d * l.d < a.n * l.d + l.n * a.d

\* The number of pointer-downs on a track so far, up to 1: the page length of
\* a press is not 0.
Presses == IF scrollPageLength.n = 0 THEN 0 ELSE 1

\* A pointer can be pressed on track b at the offset q along it with the
\* track as target: the track is rendered and q is a point of it that is not
\* covered by the thumb.
CanPressBar(b, q) ==
    /\ painted
    /\ events < MaxEvents
    /\ Presses < MaxPresses
    /\ pointer = NoThumb
    /\ IF b = "hBar"
       THEN /\ horizontal /\ style.hBarOverlayDisplay # "none"
            /\ q < HTrackLength
            /\ ~OnThumb(q, style.hBarThumbLeft, style.hBarThumbWidth, HTrackLength)
       ELSE /\ vertical /\ style.vBarOverlayDisplay # "none"
            /\ q < VTrackLength
            /\ ~OnThumb(q, style.vBarThumbTop, style.vBarThumbHeight, VTrackLength)

\* PageLength with the client extent for the scroll extent.
PageLengthOfClient(scrollExtent, clientExtent, thumbLength, trackLength) ==
    Frac(clientExtent * thumbLength, trackLength)

\* `scrollWidth * hBarThumb.offsetWidth / hBar.offsetWidth`
PageLength(scrollExtent, clientExtent, thumbLength, trackLength) ==
    Frac(scrollExtent * thumbLength, trackLength)

\* onScrollBarPointerDown(event) with event.target the track b and the
\* offset q along it.
OnScrollBarPointerDown(b, q) ==
    /\ CanPressBar(b, q)
    /\ pointer' = b
    /\ events' = events + 1
    /\ isPointerDown' = TRUE
    /\ IF b = "hBar"
       THEN LET box == ThumbBox("h", style, classList)
                page == PageLength(scrollWidth, clientWidth, box.offsetWidth, HTrackLength)
                by == IF q < box.offsetLeft THEN [page EXCEPT !.n = -page.n] ELSE page
            IN  /\ contScrollStartPos' = [x |-> q, y |-> PressAcross]
                /\ contScrollHorizontal' = TRUE
                /\ contScrollBackwards' = (q <= box.offsetLeft)
                /\ scrollPageLength' = page
                /\ smoothScroll' = [axis |-> "h", by |-> by, half |-> FALSE,
                                    target |-> ScrollBy(scrollLeft, by, MaxScrollLeft)]
       ELSE LET box == ThumbBox("v", style, classList)
                page == PageLength(scrollHeight, clientHeight, box.offsetHeight, VTrackLength)
                by == IF q < box.offsetTop THEN [page EXCEPT !.n = -page.n] ELSE page
            IN  /\ contScrollStartPos' = [x |-> PressAcross, y |-> q]
                /\ contScrollHorizontal' = FALSE
                /\ contScrollBackwards' = (q <= box.offsetTop)
                /\ scrollPageLength' = page
                /\ smoothScroll' = [axis |-> "v", by |-> by, half |-> FALSE,
                                    target |-> ScrollBy(scrollTop, by, MaxScrollTop)]
    /\ UNCHANGED <<configVars, sizeVars, scrollVars, adjustVars, frameVars, dragging,
                   dragStart, dragStartElementPos, draggingThumb, draggingThumbRect,
                   draggingBarRect, moveListeners, cleanupTimers, style, classList, endVars,
                   observerVars, contentVars, opResult, disclosureVars>>

TrackPointerDown == \E b \in Bars, q \in PressCoords : OnScrollBarPointerDown(b, q)

\* The pointer pressed on a track is released over it:
\* onScrollBarPointerUp(event).
OnScrollBarPointerUp ==
    /\ pointer \in Bars
    /\ pointer' = NoThumb
    /\ isPointerDown' = FALSE
    /\ UNCHANGED <<configVars, sizeVars, scrollVars, adjustVars, frameVars, dragVars, style,
                   classList, contScrollStartPos, contScrollBackwards, scrollPageLength,
                   endVars, smoothScroll, observerVars, contentVars, opResult, disclosureVars, events>>

\* The pointer pressed on a track leaves the track and is released
\* elsewhere: the pointer is not captured, so that no listener of the track
\* is called.
PointerUpElsewhere ==
    /\ pointer \in Bars
    /\ pointer' = NoThumb
    /\ UNCHANGED <<configVars, sizeVars, scrollVars, adjustVars, frameVars, dragVars, style,
                   classList, pressVars, observerVars, contentVars, opResult, disclosureVars,
                   events>>

\* --------------------------------------------------------- configuration

Overlays == {"hBarOverlay", "vBarOverlay"}

\* horizontal(v)
Horizontal ==
    /\ \E v \in BOOLEAN :
          IF v # horizontal
          THEN /\ horizontal' = v
               /\ modeClassList' = IF v THEN modeClassList \cup {"horizontal"}
                                        ELSE modeClassList \ {"horizontal"}
               /\ attached' = IF v THEN attached \cup {"hBarOverlay"}
                                   ELSE attached \ {"hBarOverlay"}
          ELSE UNCHANGED <<horizontal, modeClassList, attached>>
    /\ UNCHANGED <<vertical, native, scrollListening, overflow, overflowTimers, sizeVars,
                   scrollVars, adjustVars, frameVars, dragVars, style, classList, pointer,
                   pressVars, observerVars, contentVars, opResult, disclosureVars, events>>

\* vertical(v)
Vertical ==
    /\ \E v \in BOOLEAN :
          IF v # vertical
          THEN /\ vertical' = v
               /\ modeClassList' = IF v THEN modeClassList \cup {"vertical"}
                                        ELSE modeClassList \ {"vertical"}
               /\ attached' = IF v THEN attached \cup {"vBarOverlay"}
                                   ELSE attached \ {"vBarOverlay"}
          ELSE UNCHANGED <<vertical, modeClassList, attached>>
    /\ UNCHANGED <<horizontal, native, scrollListening, overflow, overflowTimers, sizeVars,
                   scrollVars, adjustVars, frameVars, dragVars, style, classList, pointer,
                   pressVars, observerVars, contentVars, opResult, disclosureVars, events>>

\* native(v): with native scroll bars the listeners and both overlays are
\* removed; without them the listeners are subscribed, both overlays are
\* inserted and syncScrollBars() is called. Either way the overflow is hidden
\* and a timer is set that restores the values read before.
Native ==
    /\ \E v \in BOOLEAN :
          IF v # native
          THEN /\ Len(overflowTimers) < MaxToggles
               /\ native' = v
               /\ IF v
                  THEN /\ moveListeners' = moveListeners \ {draggingThumb}
                       /\ scrollListening' = FALSE
                       /\ attached' = {}
                       /\ modeClassList' = modeClassList \cup {"native"}
                       /\ UNCHANGED <<classList, pending, rafQueue>>
                  ELSE /\ CanSync
                       /\ scrollListening' = TRUE
                       /\ attached' = Overlays
                       /\ modeClassList' = modeClassList \ {"native"}
                       /\ SyncScrollBars(FALSE)
                       /\ UNCHANGED moveListeners
               /\ overflow' = "hidden"
               /\ overflowTimers' = Append(overflowTimers, overflow)
          ELSE UNCHANGED <<native, moveListeners, scrollListening, attached, modeClassList,
                           classList, pending, rafQueue, overflow, overflowTimers>>
    /\ UNCHANGED <<horizontal, vertical, sizeVars, scrollVars, adjustVars, painted, dragging,
                   dragStart, dragStartElementPos, draggingThumb, draggingThumbRect,
                   draggingBarRect, contScrollHorizontal, cleanupTimers, style, pointer,
                   pressVars, observerVars, contentVars, opResult, disclosureVars, events>>

\* The callback of the setTimeout(.., 17) of native(): the overflow read at
\* the call is written back.
OverflowRestore ==
    /\ overflowTimers # <<>>
    /\ overflow' = Head(overflowTimers)
    /\ overflowTimers' = Tail(overflowTimers)
    /\ UNCHANGED <<horizontal, vertical, native, attached, modeClassList, scrollListening,
                   sizeVars, scrollVars, adjustVars, frameVars, dragVars, style, classList,
                   pointer, pressVars, observerVars, contentVars, opResult, disclosureVars,
                   events>>

\* ----------------------------------------------------------- adjustments

\* The components an adjustment refers to.
ElementsOf(a) ==
    {v.el : v \in {w \in {a.Offset, a.ReduceSize} : IsComponent(w)}}

\* Reobserve without the calls of unobserve().
ReobserveKeepingOld(observed, old, new) == observed \cup new

\* adjustmentResizeObserver after unobserve() of the elements of `old` and
\* observe() of the elements of `new`: observe() starts a new observation,
\* which is delivered once for an element that is laid out.
Reobserve(observed, old, new) == (observed \ old) \cup new

\* hBarLeftOffset as horizontalAdjustment() derives it from a component.
OffsetAtSetH(box) == box.offsetTop
\* hBarReduceWidth as horizontalAdjustment() derives it from a component.
ReduceSizeAtSetH(box) == box.offsetHeight

\* horizontalAdjustment(a)
HorizontalAdjustment(a) ==
    /\ CanSync
    /\ adjustmentObserved' = Reobserve(adjustmentObserved, ElementsOf(hAdjustment), ElementsOf(a))
    /\ adjustmentEntries' = Reobserve(adjustmentEntries, ElementsOf(hAdjustment), ElementsOf(a))
    /\ hAdjustment' = a
    /\ hBarLeftOffset' = IF IsComponent(a.Offset)
                         THEN OffsetAtSetH(elementBox[a.Offset.el])
                         ELSE a.Offset.num
    /\ hBarReduceWidth' = IF IsComponent(a.ReduceSize)
                          THEN ReduceSizeAtSetH(elementBox[a.ReduceSize.el])
                          ELSE a.ReduceSize.num
    /\ SyncScrollBars(FALSE)
    /\ UNCHANGED <<configVars, sizeVars, scrollVars, vBarTopOffset, vBarReduceHeight, painted,
                   dragVars, style, pointer, pressVars, vAdjustment, elementBox, contentVars, opResult, disclosureVars,
                   events>>

\* verticalAdjustment(a)
VerticalAdjustment(a) ==
    /\ CanSync
    /\ adjustmentObserved' = Reobserve(adjustmentObserved, ElementsOf(vAdjustment), ElementsOf(a))
    /\ adjustmentEntries' = Reobserve(adjustmentEntries, ElementsOf(vAdjustment), ElementsOf(a))
    /\ vAdjustment' = a
    /\ vBarTopOffset' = IF IsComponent(a.Offset)
                        THEN elementBox[a.Offset.el].offsetTop
                        ELSE a.Offset.num
    /\ vBarReduceHeight' = IF IsComponent(a.ReduceSize)
                           THEN elementBox[a.ReduceSize.el].offsetHeight
                           ELSE a.ReduceSize.num
    /\ SyncScrollBars(FALSE)
    /\ UNCHANGED <<configVars, sizeVars, scrollVars, hBarLeftOffset, hBarReduceWidth, painted,
                   dragVars, style, pointer, pressVars, hAdjustment, elementBox, contentVars, opResult, disclosureVars,
                   events>>

SetHorizontalAdjustment == \E a \in Adjustments : HorizontalAdjustment(a)
SetVerticalAdjustment == \E a \in Adjustments : VerticalAdjustment(a)

\* The layout gives the component e another box of another size; if e is
\* observed, an observation is to be delivered.
ElementResize(e, box) ==
    /\ box # elementBox[e]
    /\ elementBox' = [elementBox EXCEPT ![e] = box]
    /\ adjustmentEntries' = IF e \in adjustmentObserved
                            THEN adjustmentEntries \cup {e}
                            ELSE adjustmentEntries
    /\ UNCHANGED <<configVars, sizeVars, scrollVars, adjustVars, frameVars, dragVars, style,
                   classList, pointer, pressVars, hAdjustment, vAdjustment,
                   adjustmentObserved, contentVars, opResult, disclosureVars, events>>

ElementResized == \E e \in Elements, box \in ElementBoxes : ElementResize(e, box)

\* The entries of a callback of adjustmentResizeObserver for which
\* syncScrollBars() is called.
Matched(entries) == entries \cap (ElementsOf(hAdjustment) \cup ElementsOf(vAdjustment))

\* The value the callback of adjustmentResizeObserver stores for the
\* adjustment value v: the dimension of the box of its component if that is
\* among the entries, else the value stored so far.
Refreshed(v, entries, dimension, stored) ==
    IF IsComponent(v) /\ v.el \in entries THEN elementBox[v.el][dimension] ELSE stored

\* The callback of adjustmentResizeObserver with the observations to deliver.
AdjustmentResizeObserver ==
    /\ adjustmentEntries # {}
    /\ dragging \/ pending + Cardinality(Matched(adjustmentEntries)) <= MaxPending
    /\ hBarLeftOffset' =
          Refreshed(hAdjustment.Offset, adjustmentEntries, "offsetLeft", hBarLeftOffset)
    /\ hBarReduceWidth' =
          Refreshed(hAdjustment.ReduceSize, adjustmentEntries, "offsetWidth", hBarReduceWidth)
    /\ vBarTopOffset' =
          Refreshed(vAdjustment.Offset, adjustmentEntries, "offsetTop", vBarTopOffset)
    /\ vBarReduceHeight' =
          Refreshed(vAdjustment.ReduceSize, adjustmentEntries, "offsetHeight", vBarReduceHeight)
    \* syncScrollBars() once for each entry
    /\ pending' = IF dragging THEN pending
                  ELSE pending + Cardinality(Matched(adjustmentEntries))
    /\ rafQueue' = IF dragging THEN rafQueue
                   ELSE rafQueue \o [i \in 1..Cardinality(Matched(adjustmentEntries)) |-> "sync"]
    /\ adjustmentEntries' = {}
    /\ UNCHANGED <<configVars, sizeVars, scrollVars, painted, dragVars, style, classList,
                   pointer, pressVars, hAdjustment, vAdjustment, elementBox,
                   adjustmentObserved, contentVars, opResult, disclosureVars, events>>

\* --------------------------------------------------------------- content

\* The records the DOM queues when the node is appended to the content area:
\* a node that is a child already is removed first.
AppendRecords(node) ==
    (IF node \in children THEN <<[addedNodes |-> {}, removedNodes |-> {node}]>> ELSE <<>>)
       \o <<[addedNodes |-> {node}, removedNodes |-> {}]>>

\* append(component): contentContainer.append(component), syncScrollBars().
AppendChild(node) ==
    /\ CanSync
    /\ Len(mutationRecords) + Len(AppendRecords(node)) <= MaxRecords
    /\ children' = children \cup {node}
    /\ mutationRecords' = mutationRecords \o AppendRecords(node)
    /\ SyncScrollBars(FALSE)
    /\ opResult' = "this"
    /\ UNCHANGED <<configVars, sizeVars, scrollVars, adjustVars, painted, dragVars, style,
                   pointer, pressVars, observerVars, resizeObserved, events,
                   disclosureVars>>

\* remove(component): contentContainer.remove(component), syncScrollBars().
RemoveChild(node) ==
    /\ CanSync
    /\ node \in children
    /\ Len(mutationRecords) < MaxRecords
    /\ children' = children \ {node}
    /\ mutationRecords' = Append(mutationRecords, [addedNodes |-> {}, removedNodes |-> {node}])
    /\ SyncScrollBars(FALSE)
    /\ opResult' = "this"
    /\ UNCHANGED <<configVars, sizeVars, scrollVars, adjustVars, painted, dragVars, style,
                   pointer, pressVars, observerVars, resizeObserved, events,
                   disclosureVars>>

\* insertFragment(at, fragment) entered as frame number `depth` of the call
\* stack: its first statement is the call insertFragment(at, fragment); an
\* exception of that call is not caught, and after its return
\* syncScrollBars() is called. A call the stack has no room for throws a
\* RangeError.
RECURSIVE InsertFragmentOn(_)
InsertFragmentOn(depth) ==
    IF depth > MaxStack
    THEN [thrown |-> TRUE, syncs |-> 0]
    ELSE LET inner == InsertFragmentOn(depth + 1)
         IN  IF inner.thrown THEN inner ELSE [inner EXCEPT !.syncs = @ + 1]

\* insertFragment(at, fragment), called by the user of the scroll container.
InsertFragment ==
    /\ \E r \in {InsertFragmentOn(1)} :
          /\ opResult' = IF r.thrown THEN "RangeError" ELSE "this"
          /\ pending' = IF dragging THEN pending ELSE pending + r.syncs
          /\ rafQueue' = IF dragging THEN rafQueue
                         ELSE rafQueue \o [i \in 1..r.syncs |-> "sync"]
    /\ UNCHANGED <<configVars, sizeVars, scrollVars, adjustVars, painted, dragVars, style,
                   classList, pointer, pressVars, observerVars, contentVars, events,
                   disclosureVars>>

AppendNode == \E node \in Nodes : AppendChild(node)
RemoveNode == \E node \in Nodes : RemoveChild(node)

\* One record without the calls of unobserve().
ProcessRecordWithoutUnobserve(observed, record) ==
    observed \cup {node \in record.addedNodes : IsElement(node)}

\* The targets of resizeObserver after one record: the removed elements are
\* unobserved, then the added elements are observed.
ProcessRecord(observed, record) ==
    (observed \ {node \in record.removedNodes : IsElement(node)})
       \cup {node \in record.addedNodes : IsElement(node)}

RECURSIVE ProcessRecords(_, _)
ProcessRecords(observed, records) ==
    IF records = <<>> THEN observed
    ELSE ProcessRecords(ProcessRecord(observed, Head(records)), Tail(records))

\* The callback of mutationObserver with the queued records.
MutationCallback ==
    /\ mutationRecords # <<>>
    /\ resizeObserved' = ProcessRecords(resizeObserved, mutationRecords)
    /\ mutationRecords' = <<>>
    /\ UNCHANGED <<configVars, sizeVars, scrollVars, adjustVars, frameVars, dragVars, style,
                   classList, pointer, pressVars, observerVars, children, events, opResult,
                   disclosureVars>>

\* --------------------------------------------------------- specification

Next ==
    \/ UserScroll
    \/ ScrollEvent
    \/ ScrollEndTimeout
    \/ Resize
    \/ Frame
    \/ PointerDown
    \/ PointerMove
    \/ OnDragThumbPointerUp
    \/ DragCleanup

\* Synchronization and thumb dragging.
Spec == Init /\ [][Next]_vars

PressNext ==
    \/ UserScroll
    \/ ScrollEvent
    \/ ScrollEndTimeout
    \/ Frame
    \/ TrackPointerDown
    \/ OnScrollBarPointerUp
    \/ SmoothScrollStep
    \/ PointerDown
    \/ OnDragThumbPointerUp
    \/ DragCleanup

\* The surfaces of PressSpec: one with a vertical scroll bar, one with a
\* horizontal scroll bar and one with both, with overflowing content.
PressInit ==
    /\ Init
    /\ <<horizontal, vertical, <<clientWidth, scrollWidth, offsetWidth>>,
         <<clientHeight, scrollHeight, offsetHeight>>>> \in
          {<<FALSE, TRUE, <<200, 200, 200>>, <<100, 400, 102>>>>,
           <<TRUE, FALSE, <<100, 1000, 100>>, <<200, 200, 200>>>>,
           <<TRUE, TRUE, <<100, 400, 102>>, <<100, 1000, 100>>>>}

\* Synchronization, track presses and presses of a thumb without a move.
PressSpec == PressInit /\ [][PressNext]_vars

ReleaseNext ==
    \/ UserScroll
    \/ ScrollEvent
    \/ ScrollEndTimeout
    \/ Frame
    \/ TrackPointerDown
    \/ OnScrollBarPointerUp
    \/ PointerUpElsewhere
    \/ SmoothScrollStep

\* The surface with a horizontal scroll bar and overflowing content.
ReleaseInit == PressInit /\ horizontal /\ ~vertical

\* Synchronization and presses of the track, released on the track or
\* elsewhere. The browser dispatches every scroll event and runs every timer,
\* every requested animation frame callback and every smooth scroll to its
\* end; the user is free to do nothing.
ReleaseSpec ==
    /\ ReleaseInit
    /\ [][ReleaseNext]_vars
    /\ WF_vars(ScrollEvent)
    /\ WF_vars(ScrollEndTimeout)
    /\ WF_vars(Frame)
    /\ WF_vars(SmoothScrollStep)

AdjustmentNext ==
    \/ SetHorizontalAdjustment
    \/ SetVerticalAdjustment
    \/ ElementResized
    \/ AdjustmentResizeObserver
    \/ Frame

\* A surface with both scroll bars and overflowing content.
AdjustmentInit ==
    /\ Init
    /\ horizontal /\ vertical
    /\ <<clientWidth, scrollWidth, offsetWidth>> = <<100, 400, 102>>
    /\ <<clientHeight, scrollHeight, offsetHeight>> = <<100, 1000, 100>>

\* Adjustments of the scroll bars by numbers and by components.
AdjustmentSpec == AdjustmentInit /\ [][AdjustmentNext]_vars

ConfigNext ==
    \/ Horizontal
    \/ Vertical
    \/ Native
    \/ OverflowRestore
    \/ Frame

\* The containers the constructor makes with and without each scroll bar,
\* with content that overflows along both axes.
ConfigInit ==
    /\ Init
    /\ <<clientWidth, scrollWidth, offsetWidth>> = <<100, 400, 102>>
    /\ <<clientHeight, scrollHeight, offsetHeight>> = <<100, 1000, 100>>

\* Calls of horizontal(), vertical() and native(). The browser runs every
\* requested animation frame callback and every timer; the caller is free to
\* call nothing.
ConfigSpec ==
    /\ ConfigInit
    /\ [][ConfigNext]_vars
    /\ WF_vars(Frame)
    /\ WF_vars(OverflowRestore)

DisclosureNext ==
    \/ Labels
    \/ SetDisclosed
    \/ ToggleDisclosed
    \/ Appearance

\* The disclosure containers the constructor makes of its arguments, next to
\* a scroll container.
DisclosureInit ==
    /\ ScrollContainerInit
    /\ horizontal /\ ~vertical
    /\ <<clientWidth, scrollWidth, offsetWidth>> = <<100, 1000, 100>>
    /\ <<clientHeight, scrollHeight, offsetHeight>> = <<200, 200, 200>>
    /\ \E l \in LabelArgs, d \in BOOLEAN, a \in Appearances : Is(New(l, d, a))

\* Calls of labels(), disclosed(), toggleDisclosed() and appearance().
DisclosureSpec == DisclosureInit /\ [][DisclosureNext]_vars

AliasNext ==
    \/ Labels
    \/ GetLabels
    \/ CallerWrites

\* Calls of labels(), reads of Labels, and writes of the caller to the arrays
\* it holds.
AliasSpec == DisclosureInit /\ [][AliasNext]_vars

ContentNext ==
    \/ AppendNode
    \/ RemoveNode
    \/ InsertFragment
    \/ MutationCallback
    \/ Frame

\* Children of the content area added and removed.
ContentSpec == AdjustmentInit /\ [][ContentNext]_vars

ResizeNext ==
    \/ Resize
    \/ Frame
    \/ PointerDown
    \/ OnDragThumbPointerUp
    \/ DragCleanup

\* Resizes and presses of a thumb. The browser runs every requested animation
\* frame callback and every timer; the user is free to do nothing.
ResizeSpec == Init /\ [][ResizeNext]_vars /\ WF_vars(Frame) /\ WF_vars(DragCleanup)

\* ------------------------------------------------------------------ claims

\* A frame that runs at least one recomputation pass.
PassRuns == Frame /\ pending > 0

\* C1: after every recomputation pass the track of an enabled axis is
\* displayed if and only if the client extent is less than the scroll extent;
\* with client >= scroll, a scroll extent of 0 included, it is hidden.
C1_TrackVisibleIffOverflow ==
    [][PassRuns =>
        /\ horizontal =>
              (style'.hBarOverlayDisplay = "" <=> clientWidth < scrollWidth)
        /\ vertical =>
              (style'.vBarOverlayDisplay = "" <=> clientHeight < scrollHeight)]_vars

\* A pass has shown the horizontal track of overflowing content and hidden
\* the vertical track of a surface with a scroll extent of 0.
C1_Witness ==
    /\ painted /\ pending = 0 /\ horizontal /\ vertical
    /\ clientWidth < scrollWidth /\ style.hBarOverlayDisplay = ""
    /\ scrollHeight = 0 /\ style.vBarOverlayDisplay = "none"
    /\ style.hBarThumbWidth.u = "pct"

\* The thumb size a pass writes for the client extent w and the scroll extent
\* sw is the fraction w/sw if w < sw and 1 otherwise, and the thumb of a
\* track of length t is then not shorter than the minimum thumb size.
IsThumbSize(size, w, sw, t) ==
    /\ size.u = "pct"
    /\ IF w < sw THEN size.n * sw = w * size.d ELSE size.n = size.d
    /\ ThumbLength(size, t) >= MinThumbSize
    /\ w < sw =>
          ThumbLength(size, t) = Max(MinThumbSize, Round(w * t, sw))

\* C2: after a recomputation pass the thumb size fraction of an enabled axis
\* is client/scroll when client < scroll (the thumb being no shorter than the
\* minimum thumb size) and 1 when client >= scroll.
C2_ThumbSizeFraction ==
    [][PassRuns =>
        /\ horizontal =>
              IsThumbSize(style'.hBarThumbWidth, clientWidth, scrollWidth,
                          HTrackLengthOf(style'))
        /\ vertical =>
              IsThumbSize(style'.vBarThumbHeight, clientHeight, scrollHeight,
                          VTrackLengthOf(style', classList'))]_vars

\* client = 100, scroll = 400 has given 0.25 and client = 200, scroll = 200
\* has given 1.
C2_Witness ==
    /\ painted /\ pending = 0 /\ horizontal /\ vertical
    /\ clientWidth = 100 /\ scrollWidth = 400 /\ style.hBarThumbWidth = Pct(1, 4)
    /\ clientHeight = 200 /\ scrollHeight = 200 /\ style.vBarThumbHeight = Pct(1, 1)

\* C3 as stated: after a recomputation pass the thumb position fraction of an
\* enabled axis with overflowing content is the scroll offset divided by
\* scroll extent - client extent.
C3_PositionOverScrollableRange ==
    [][PassRuns =>
        /\ (horizontal /\ clientWidth < scrollWidth) =>
              /\ style'.hBarThumbLeft.u = "pct"
              /\ style'.hBarThumbLeft.n * (scrollWidth - clientWidth)
                    = scrollLeft * style'.hBarThumbLeft.d
        /\ (vertical /\ clientHeight < scrollHeight) =>
              /\ style'.vBarThumbTop.u = "pct"
              /\ style'.vBarThumbTop.n * (scrollHeight - clientHeight)
                    = scrollTop * style'.vBarThumbTop.d]_vars

\* C3 as amended: after a recomputation pass the thumb position fraction of an
\* enabled axis is the scroll offset divided by the scroll extent (0 for a
\* scroll extent of 0).
C3_PositionOverScrollExtent ==
    [][PassRuns =>
        /\ horizontal =>
              /\ style'.hBarThumbLeft.u = "pct"
              /\ style'.hBarThumbLeft.n * scrollWidth
                    = scrollLeft * style'.hBarThumbLeft.d
        /\ vertical =>
              /\ style'.vBarThumbTop.u = "pct"
              /\ style'.vBarThumbTop.n * scrollHeight
                    = scrollTop * style'.vBarThumbTop.d]_vars

\* client = 100, scroll = 400 and a scroll offset of 150 have given 0.375.
C3_Witness ==
    /\ painted /\ pending = 0 /\ horizontal
    /\ clientWidth = 100 /\ scrollWidth = 400 /\ scrollLeft = 150
    /\ style.hBarThumbLeft = Pct(3, 8)

\* C4: at most one recomputation is queued at any time, so that a frame runs
\* at most one recomputation pass.
C4_AtMostOnePending == pending <= 1

\* A call of syncScrollBars() by the resize observer.
ResizeSync == Resize /\ (vertical \/ horizontal)

\* C5 as stated: a sync call made while a drag session is active, triggered by
\* a scroll event or not, changes no state of the engine (the is-scrolling
\* class included) and schedules no recomputation.
C5_SyncWhileDraggingChangesNothing ==
    [][(dragging /\ (ScrollEvent \/ ResizeSync)) =>
          /\ pending' = pending
          /\ classList' = classList
          /\ UNCHANGED <<style, dragVars, adjustVars>>]_vars

\* C5 as amended: a sync call made while a drag session is active schedules
\* no recomputation and changes no state of the engine, except that a call
\* triggered by a scroll event enters the is-scrolling state.
C5_SyncWhileDraggingOnlyEntersScrolling ==
    [][/\ (dragging /\ ScrollEvent) =>
              /\ pending' = pending
              /\ classList' = classList \cup {"scrolling"}
              /\ UNCHANGED <<style, dragVars, adjustVars>>
       /\ (dragging /\ ResizeSync) =>
              /\ pending' = pending
              /\ classList' = classList
              /\ UNCHANGED <<style, dragVars, adjustVars>>]_vars

\* A scroll event was dispatched during a drag: the pointer-down is the only
\* event of the user so far, the scroll event of a move has been dispatched
\* and no recomputation is queued.
C5_Witness ==
    /\ dragging /\ events = 1 /\ pending = 0
    /\ "scrolling" \in classList
    /\ ~scrollEventPending

\* C6: while dragging is true no recomputation pass writes the position of
\* the dragged thumb.
C6_NoPassWritesDraggedThumb ==
    [][(PassRuns /\ dragging) =>
          /\ draggingThumb = "h" => style'.hBarThumbLeft = style.hBarThumbLeft
          /\ draggingThumb = "v" => style'.vBarThumbTop = style.vBarThumbTop]_vars

\* C7 as stated: while a drag session is active a sync trigger still leads to
\* a recomputation (of the track visibility and of the other thumb).
C7_SyncTriggerWhileDraggingSchedulesPass ==
    [][(dragging /\ (ScrollEvent \/ ResizeSync)) => pending' = pending + 1]_vars

\* The inline styles other than the position of the dragged thumb.
OtherStyles(st) ==
    [st EXCEPT !.hBarThumbLeft = IF draggingThumb = "h" THEN Unset ELSE @,
               !.vBarThumbTop = IF draggingThumb = "v" THEN Unset ELSE @]

\* C7 as amended: while a drag session is active nothing schedules a
\* recomputation, and once the passes queued before the drag have run, the
\* track visibility of both axes and the size and position of the other thumb
\* stay as they are, whatever is triggered.
C7_NoRecomputationWhileDragging ==
    [][dragging =>
          /\ pending' <= pending
          /\ pending = 0 => OtherStyles(style') = OtherStyles(style)]_vars

\* During a drag the content has come to fit the surface horizontally, the
\* resize observer has called syncScrollBars(), and the horizontal track is
\* still displayed with no recomputation queued.
C7_Witness ==
    /\ dragging /\ pending = 0 /\ horizontal
    /\ clientWidth >= scrollWidth
    /\ style.hBarOverlayDisplay = ""
    /\ events = MaxEvents

\* The move of C8 along one axis: with delta the pointer coordinate minus the
\* start coordinate, the leading edge of the thumb becomes
\* clamp(startEdge + delta, 0, trackLength - thumbLength) and the surface is
\* scrolled to startOffset + delta * f with
\* f = (scrollExtent - clientExtent) / (trackLength - thumbLength).
IsDragMove(delta, startEdge, startOffset, trackLength, thumbLength, scrollExtent,
           clientExtent, edge, offset) ==
    trackLength - thumbLength > 0 =>
       /\ edge = Px(Clamp(startEdge + delta, 0, trackLength - thumbLength))
       /\ offset = ScrollTo(Frac(startOffset * (trackLength - thumbLength)
                                    + delta * (scrollExtent - clientExtent),
                                 trackLength - thumbLength),
                            scrollExtent - clientExtent)

\* C8: every pointer move during a drag sets the thumb's leading edge and the
\* scroll offset as of IsDragMove, in the same way for both axes.
C8_DragMapping ==
    [][\A p \in Points :
          (OnDragThumbPointerMove(p) /\ dragging) =>
             /\ draggingThumb = "h" =>
                   IsDragMove(p[1] - dragStart.x, draggingThumbRect.x,
                              dragStartElementPos.x, draggingBarRect.width,
                              draggingThumbRect.width, scrollWidth, clientWidth,
                              style'.hBarThumbLeft, scrollLeft')
             /\ draggingThumb = "v" =>
                   IsDragMove(p[2] - dragStart.y, draggingThumbRect.y,
                              dragStartElementPos.y, draggingBarRect.height,
                              draggingThumbRect.height, scrollHeight, clientHeight,
                              style'.vBarThumbTop, scrollTop')]_vars

\* The drag started from a synchronized state: the captured thumb is as a
\* pass lays it out for the captured scroll offset in the captured track.
SyncedStart(edge, length, startOffset, trackLength, scrollExtent, clientExtent) ==
    /\ clientExtent < scrollExtent
    /\ edge = Round(startOffset * trackLength, scrollExtent)
    /\ length = Max(MinThumbSize, Round(clientExtent * trackLength, scrollExtent))

\* C9: in a drag that started from a synchronized state, a move that takes the
\* thumb to its maximum draggable offset scrolls the surface to exactly
\* scroll extent - client extent.
C9_DragToEndScrollsToEnd ==
    [][\A p \in Points :
          (OnDragThumbPointerMove(p) /\ dragging) =>
             /\ ( /\ draggingThumb = "h"
                  /\ SyncedStart(draggingThumbRect.x, draggingThumbRect.width,
                                 dragStartElementPos.x, draggingBarRect.width,
                                 scrollWidth, clientWidth)
                  /\ style'.hBarThumbLeft =
                        Px(draggingBarRect.width - draggingThumbRect.width) )
                => scrollLeft' = scrollWidth - clientWidth
             /\ ( /\ draggingThumb = "v"
                  /\ SyncedStart(draggingThumbRect.y, draggingThumbRect.height,
                                 dragStartElementPos.y, draggingBarRect.height,
                                 scrollHeight, clientHeight)
                  /\ style'.vBarThumbTop =
                        Px(draggingBarRect.height - draggingThumbRect.height) )
                => scrollTop' = scrollHeight - clientHeight]_vars

\* C10: once the deferred cleanup of a pointer-up has run (no drag is active
\* and no cleanup is queued) the engine is idle: no active thumb, the move
\* listener unsubscribed, the session fields reset.
C10_IdleAfterCleanup ==
    (~dragging /\ cleanupTimers = 0) =>
       /\ draggingThumb = NoThumb
       /\ moveListeners = {}
       /\ dragStart = [x |-> NegInfinity, y |-> NegInfinity]
       /\ dragStartElementPos = [x |-> NegInfinity, y |-> NegInfinity]
       /\ "dragging" \notin classList

\* The press point q of a track of length t precedes the leading edge of the
\* thumb.
Precedes(q, pos, t) == LET a == ThumbStart(pos, t) IN q * a.d < a.n

\* C11: a pointer-down on a track scrolls backward if the press point
\* precedes the leading edge of the thumb and forward otherwise, at once and
\* in the continuous stepping.
C11_PressDirection ==
    [][\A b \in Bars, q \in PressCoords :
          OnScrollBarPointerDown(b, q) =>
             LET backward == IF b = "hBar"
                             THEN Precedes(q, style.hBarThumbLeft, HTrackLength)
                             ELSE Precedes(q, style.vBarThumbTop, VTrackLength)
             IN  /\ contScrollBackwards' = backward
                 /\ (smoothScroll'.by.n < 0) = backward]_vars

\* C12: a pointer-down on a track sets the page length to scroll extent *
\* thumb length / track length of the pressed axis and requests one smooth
\* scroll by + or - the page length along that axis, nothing being scrolled
\* at once; a pointer-down on a thumb requests no scroll.
C12_PageScroll ==
    [][/\ \A q \in PressCoords :
             OnScrollBarPointerDown("hBar", q) =>
                /\ scrollPageLength' =
                      Frac(scrollWidth * ThumbBox("h", style, classList).offsetWidth,
                           HTrackLength)
                /\ smoothScroll'.axis = "h"
                /\ smoothScroll'.by \in {scrollPageLength',
                                         [scrollPageLength' EXCEPT !.n = -@]}
                /\ UNCHANGED <<scrollLeft, scrollTop>>
       /\ \A q \in PressCoords :
             OnScrollBarPointerDown("vBar", q) =>
                /\ scrollPageLength' =
                      Frac(scrollHeight * ThumbBox("v", style, classList).offsetHeight,
                           VTrackLength)
                /\ smoothScroll'.axis = "v"
                /\ smoothScroll'.by \in {scrollPageLength',
                                         [scrollPageLength' EXCEPT !.n = -@]}
                /\ UNCHANGED <<scrollLeft, scrollTop>>
       /\ PointerDown => UNCHANGED <<smoothScroll, scrollLeft, scrollTop, scrollPageLength>>]_vars

\* A track of a surface with overflowing content was pressed, before and
\* after its thumb, and the smooth scroll by a page is in progress.
C12_Witness ==
    /\ pointer = "vBar" /\ isPointerDown
    /\ smoothScroll.axis = "v"
    /\ scrollPageLength = smoothScroll.by
    /\ scrollPageLength.n > 0
    /\ smoothScroll.target # scrollTop

\* The thumb of the pressed axis, from its leading edge to leading edge +
\* length, contains the press point (edges included).
ThumbCoversPress ==
    LET b == ThumbBox(IF contScrollHorizontal THEN "h" ELSE "v", style, classList)
    IN  RectContains(b.offsetLeft, b.offsetTop, b.offsetLeft + b.offsetWidth,
                     b.offsetTop + b.offsetHeight, contScrollStartPos)

\* A frame in which rafScroll is the only callback.
StepFrame == Frame /\ rafQueue = <<"step">>

\* C13: while the pointer is down, the step of a frame scrolls by + or -
\* page length / 10 and is queued anew if the thumb does not contain the
\* press point, and stops without scrolling if it does.
C13_StepsUntilThumbCoversPress ==
    [][(StepFrame /\ isPointerDown) =>
          IF ThumbCoversPress
          THEN rafQueue' = <<>> /\ UNCHANGED <<scrollLeft, scrollTop>>
          ELSE /\ rafQueue' = <<"step">>
               /\ scrollLeft' = IF contScrollHorizontal
                                THEN ScrollBy(scrollLeft, ContScrollDistance, MaxScrollLeft)
                                ELSE scrollLeft
               /\ scrollTop' = IF contScrollHorizontal
                               THEN scrollTop
                               ELSE ScrollBy(scrollTop, ContScrollDistance, MaxScrollTop)]_vars

\* C14: no stepping loop runs without end: there is no state in which
\* rafScroll is queued, nothing else is to happen, and the frame leaves
\* everything as it is, rafScroll queued again.
C14_NoEndlessStepping ==
    ~ /\ rafQueue = <<"step">>
      /\ ~scrollEventPending
      /\ ~onScrollEndTimeout
      /\ smoothScroll = NoScroll
      /\ cleanupTimers = 0
      /\ RunCallbacks(rafQueue, Now) = [Now EXCEPT !.queue = <<"step">>]

\* C15: the pointer-down flag is set by a pointer-down on a track only and
\* cleared by a pointer-up on a track, and while it is cleared neither a
\* frame nor the end-of-scroll timer scrolls or queues rafScroll.
C15_NoStepAfterPointerUp ==
    [][/\ OnScrollBarPointerUp => ~isPointerDown'
       /\ (~isPointerDown /\ isPointerDown') => TrackPointerDown
       /\ (~isPointerDown /\ Frame) =>
             UNCHANGED <<scrollLeft, scrollTop>> /\ StepCount(rafQueue') = 0
       /\ (~isPointerDown /\ ScrollEndTimeout) =>
             UNCHANGED <<scrollLeft, scrollTop, rafQueue>>]_vars

\* The pointer was released on the track while rafScroll is queued.
C15_Witness ==
    /\ StepCount(rafQueue) = 1
    /\ ~isPointerDown
    /\ pointer = NoThumb
    /\ Presses = 1

\* The value derived for the adjustment value v: the dimension of the box of
\* its component, or the number itself.
Derived(v, dimension) == IF IsComponent(v) THEN elementBox[v.el][dimension] ELSE v.num

\* The value stored for v is refreshed by the entries to deliver, or kept.
RefreshedOrKept(v, dimension, stored, new) ==
    IF IsComponent(v) /\ v.el \in adjustmentEntries
    THEN new = elementBox[v.el][dimension]
    ELSE new = stored

\* C16: the stored adjustment values are derived in the same way when the
\* adjustment is set and when a resize of its component is observed: for the
\* horizontal scroll bar from offsetLeft and offsetWidth, for the vertical one
\* from offsetTop and offsetHeight; a number is stored as it is.
C16_SameDerivation ==
    [][/\ \A a \in Adjustments :
             HorizontalAdjustment(a) =>
                /\ hBarLeftOffset' = Derived(a.Offset, "offsetLeft")
                /\ hBarReduceWidth' = Derived(a.ReduceSize, "offsetWidth")
       /\ \A a \in Adjustments :
             VerticalAdjustment(a) =>
                /\ vBarTopOffset' = Derived(a.Offset, "offsetTop")
                /\ vBarReduceHeight' = Derived(a.ReduceSize, "offsetHeight")
       /\ AdjustmentResizeObserver =>
             /\ RefreshedOrKept(hAdjustment.Offset, "offsetLeft", hBarLeftOffset,
                                hBarLeftOffset')
             /\ RefreshedOrKept(hAdjustment.ReduceSize, "offsetWidth", hBarReduceWidth,
                                hBarReduceWidth')
             /\ RefreshedOrKept(vAdjustment.Offset, "offsetTop", vBarTopOffset,
                                vBarTopOffset')
             /\ RefreshedOrKept(vAdjustment.ReduceSize, "offsetHeight", vBarReduceHeight,
                                vBarReduceHeight')]_vars

\* The components the adjustments of the two scroll bars refer to.
Referenced == ElementsOf(hAdjustment) \cup ElementsOf(vAdjustment)

\* C17: a call of horizontalAdjustment() or verticalAdjustment() leaves the
\* components of the new adjustment observed and no component observed that
\* no adjustment refers to; a resize of a component no adjustment refers to
\* gives no observation; the callback delivers observations of components
\* referred to only, stores their dimensions and calls syncScrollBars() once
\* for each, which queues one pass unless the thumb is dragged.
C17_AdjustmentSwap ==
    [][/\ (SetHorizontalAdjustment \/ SetVerticalAdjustment) =>
             /\ (IF SetHorizontalAdjustment THEN ElementsOf(hAdjustment')
                                            ELSE ElementsOf(vAdjustment'))
                   \subseteq adjustmentObserved'
             /\ adjustmentObserved' \subseteq
                   ElementsOf(hAdjustment') \cup ElementsOf(vAdjustment')
       /\ \A e \in Elements \ Referenced, box \in ElementBoxes :
             ElementResize(e, box) => UNCHANGED <<adjustmentEntries, frameVars>>
       /\ AdjustmentResizeObserver =>
             /\ adjustmentEntries \subseteq Referenced
             /\ RefreshedOrKept(hAdjustment.Offset, "offsetLeft", hBarLeftOffset,
                                hBarLeftOffset')
             /\ RefreshedOrKept(vAdjustment.ReduceSize, "offsetHeight", vBarReduceHeight,
                                vBarReduceHeight')
             /\ pending' = IF dragging THEN pending
                           ELSE pending + Cardinality(adjustmentEntries)]_vars

\* The horizontal scroll bar is adjusted by the component e2 alone, whose
\* observed resize has been stored, and the component e1, observed no more,
\* has been resized.
C17_Witness ==
    /\ hAdjustment.Offset = Component("e2")
    /\ ElementsOf(vAdjustment) = {}
    /\ adjustmentObserved = {"e2"}
    /\ adjustmentEntries = {}
    /\ elementBox["e2"] # FirstBox
    /\ hBarLeftOffset = elementBox["e2"].offsetLeft
    /\ elementBox["e1"] # FirstBox
    /\ pending > 0

\* C18: every component an adjustment refers to is observed by
\* adjustmentResizeObserver.
C18_ReferencedElementsObserved == Referenced \subseteq adjustmentObserved

ReflectsSize ==
    LET w == PassAt(style, classList, scrollLeft, scrollTop).style
    IN  /\ horizontal => /\ style.hBarOverlayDisplay = w.hBarOverlayDisplay
                         /\ style.hBarThumbWidth = w.hBarThumbWidth
        /\ vertical => /\ style.vBarOverlayDisplay = w.vBarOverlayDisplay
                       /\ style.vBarThumbHeight = w.vBarThumbHeight

\* C20: after an observed resize a pass runs without a further event, so
\* that the scroll bars reflect the new sizes, also if the resize is observed
\* while a thumb is dragged.
C20_ResizeLeadsToPass == (painted /\ ~ReflectsSize) ~> ReflectsSize

\* C21: a child-container operation of the scroll container calls the
\* operation of the content container, which changes the child list, calls
\* syncScrollBars() once and returns the scroll container.
C21_OperationsCallThrough ==
    [][(AppendNode \/ RemoveNode \/ InsertFragment) =>
          /\ Len(mutationRecords') > Len(mutationRecords)
          /\ pending' = pending + 1
          /\ opResult' = "this"]_vars

\* C22: horizontalAdjustment() and verticalAdjustment() called with the
\* adjustment that is set, while no observation waits to be delivered, leave
\* the flags, the stored offsets and reductions, the observed components and
\* the classes as they are.
C22_MutatorsIdempotent ==
    [][(/\ adjustmentEntries = {}
        /\ HorizontalAdjustment(hAdjustment) \/ VerticalAdjustment(vAdjustment)) =>
          UNCHANGED <<configVars, adjustVars, hAdjustment, vAdjustment, adjustmentObserved,
                      classList>>]_vars

\* The vertical and the horizontal track are visible after the step.
VTrackVisible == vertical /\ style'.vBarOverlayDisplay # "none"
HTrackVisible == horizontal /\ style'.hBarOverlayDisplay # "none"

\* C23: a pass gives the track of an enabled axis the length client extent -
\* offset - reduction if the track across is not visible, and a length
\* shorter by the thickness of the track across, at least, if that is visible.
C23_CornerReservation ==
    [][PassRuns =>
          /\ horizontal =>
                LET full == clientWidth - hBarLeftOffset - hBarReduceWidth
                IN  IF VTrackVisible
                    THEN /\ style'.hBarOverlayWidth.u = "px"
                         /\ style'.hBarOverlayWidth.n <= full - ScrollBarSize
                    ELSE style'.hBarOverlayWidth = Px(full)
          /\ vertical =>
                LET full == clientHeight - vBarTopOffset - vBarReduceHeight
                IN  IF HTrackVisible
                    THEN /\ style'.vBarOverlayHeight.u = "px"
                         /\ style'.vBarOverlayHeight.n <= full - ScrollBarSize
                    ELSE style'.vBarOverlayHeight = Px(full)]_vars

\* C24: a pass places the track of an enabled axis at the Offset of its
\* adjustment: the horizontal one at left = hBarLeftOffset, the vertical one
\* at top = vBarTopOffset.
C24_TrackAtOffset ==
    [][PassRuns =>
          /\ horizontal => style'.hBarOverlayLeft = Px(hBarLeftOffset)
          /\ vertical => style'.vBarOverlayTop = Px(vBarTopOffset)]_vars

\* C25: the class "scrolling" is set by the listener of a scroll event only,
\* and once it is set it is removed again.
C25_ScrollingIsTransient ==
    /\ [][("scrolling" \notin classList /\ "scrolling" \in classList') => ScrollEvent]_vars
    /\ ("scrolling" \in classList) ~> ("scrolling" \notin classList)

\* C26: the timer at the end of a scroll starts the stepping only when the
\* position is the one of the last scroll event and the pointer is still
\* held down on a track.
C26_SteppingNeedsSettledPress ==
    [][(ScrollEndTimeout /\ StepCount(rafQueue') > StepCount(rafQueue))
           => /\ lastScrollPos = [x |-> scrollLeft, y |-> scrollTop]
              /\ pointer \in Bars]_vars

\* C27: disclosed(v) dispatches no event and changes nothing when v is the
\* state; otherwise it dispatches one event, and it sets the state to v
\* unless the event is prevented, in which case the state, the classes and
\* the button stay as they are.
C27_DisclosedUnlessPrevented ==
    [][\A v \in BOOLEAN, prevented \in BOOLEAN :
          Disclosed(v, prevented) =>
              /\ (_disclosed' # _disclosed) <=> (Bool(v) # _disclosed /\ ~prevented)
              /\ _disclosed' \in {_disclosed, Bool(v)}
              /\ dispatched' = IF Bool(v) = _disclosed THEN dispatched
                                ELSE Append(dispatched, DiscloseEvent(Bool(v), prevented))
              /\ (Bool(v) = _disclosed \/ prevented) =>
                    UNCHANGED <<_disclosed, disclosureClassList, buttonText, buttonTitle>>]_vars

\* C27: a prevented 'disclose' event has been dispatched and the container
\* is still undisclosed.
C27_Witness ==
    /\ _disclosed = "false"
    /\ Len(dispatched) = 2
    /\ dispatched[2] = DiscloseEvent("true", TRUE)
    /\ disclosureClassList = {"undisclosed"}

\* C28: the button shows the second caption and title when the container is
\* disclosed and the first ones when it is not, and the container has the
\* class of its state and not the other one.
C28_ButtonAndClassShowState ==
    /\ _disclosed \in {"true", "false"}
    /\ buttonText = heap[_labels.Captions][IF _disclosed = "true" THEN 2 ELSE 1]
    /\ buttonTitle = heap[_labels.Titles][IF _disclosed = "true" THEN 2 ELSE 1]
    /\ disclosureClassList = IF _disclosed = "true" THEN {"disclosed"} ELSE {"undisclosed"}

\* C28: labels of the caller were set and the state was changed afterwards.
C28_Witness ==
    /\ _labels.Captions = CallerCaptions
    /\ _disclosed = "false"
    /\ buttonText = "Show"
    /\ Len(dispatched) >= 2

\* C29: a write of the caller to an array of a labels object it passed to
\* labels(), or to an array of an object it got from the Labels getter,
\* leaves the captions and titles stored in the component as they are.
C29_LabelsNotShared ==
    [][CallerWrites => /\ heap'[_labels.Captions] = heap[_labels.Captions]
                       /\ heap'[_labels.Titles] = heap[_labels.Titles]]_vars

\* C30: while the pointer is pressed on a thumb and its drag is active, the
\* cleanup deferred by an earlier pointer-up leaves the drag active and the
\* move listener of its thumb subscribed.
C30_CleanupSparesNewerDrag ==
    [][(DragCleanup /\ pointer \in Thumbs /\ dragging /\ pointer \in moveListeners)
           => (dragging' /\ pointer \in moveListeners')]_vars

\* C31: when the callback of a deferred cleanup runs, draggingThumb is a
\* thumb.
C31_CleanupFindsThumb ==
    [][DragCleanup => draggingThumb \in Thumbs]_vars

\* C32: at most one rafScroll callback is requested for the next frame, i.e.
\* at most one stepping loop is running.
C32_OneSteppingLoop == StepCount(rafQueue) <= 1

\* C33: isPointerDown is true only while the pointer pressed on a track is
\* held down.
C33_FlagFollowsPointer == isPointerDown => pointer \in Bars

\* C34: a pointer-down on a track records the backward direction for the
\* stepping exactly when it requests a smooth scroll backward.
C34_DirectionsAgree ==
    [][\A b \in Bars, q \in PressCoords :
          (OnScrollBarPointerDown(b, q) /\ smoothScroll'.by.n # 0)
              => (contScrollBackwards' <=> smoothScroll'.by.n < 0)]_vars

\* C35: a pointer-down on a thumb leaves the press point, the axis, the
\* direction, the page length and the pointer-down flag of the last press of
\* a track as they are.
C35_DragKeepsPressSession ==
    [][PointerDown => UNCHANGED <<contScrollStartPos, contScrollHorizontal,
                                  contScrollBackwards, scrollPageLength, isPointerDown>>]_vars

\* C38: after a pass the inline height of the track of an enabled vertical
\* axis is a length of this pass: client height - offset - reduction, or
\* that length less the gap and the thickness of the horizontal track.
C38_VerticalLengthIsCurrent ==
    [][(PassRuns /\ vertical /\ style'.vBarOverlayHeight.u = "px") =>
          \E across \in {0, ThumbGap, ThumbGap + ScrollBarSize} :
              style'.vBarOverlayHeight =
                  Px(clientHeight - vBarTopOffset - vBarReduceHeight - across)]_vars

\* C36: the overlay of an axis is a child of the surface exactly when the
\* axis is enabled and the scroll bars are not the native ones.
C36_OverlayAttachedIffEnabled ==
    /\ "hBarOverlay" \in attached <=> (horizontal /\ ~native)
    /\ "vBarOverlay" \in attached <=> (vertical /\ ~native)

\* The horizontal track is visible: its overlay is attached and displayed.
HTrackShown == "hBarOverlay" \in attached /\ style.hBarOverlayDisplay # "none"

\* The horizontal axis is enabled, without native scroll bars, over
\* overflowing content.
HEnabled == horizontal /\ ~native /\ clientWidth < scrollWidth

\* C37: when the horizontal axis of a container without native scroll bars
\* is enabled over overflowing content, its track becomes visible, unless the
\* axis is disabled or the native scroll bars are turned on before.
C37_EnabledAxisBecomesVisible == HEnabled ~> (HTrackShown \/ ~HEnabled)

====
